---- MODULE Spec2Model ----
(***************************************************************************)
(* A model of repose's schema resolution (pkg/parser/openapi3.go), its     *)
(* schema tree (pkg/spec/schema.go) and the passes of the default          *)
(* transformer (pkg/transformer/transformer.go).                           *)
(*                                                                         *)
(* Go pointers to spec.Schema are indices into the sequence `heap`; 0 is   *)
(* nil.  A raw schema reference (openapi3.SchemaRef) is a record with a    *)
(* `kind`: "nil" (a nil pointer), "empty" (no Ref, no Value), "unresolved" *)
(* (a Ref, Value == nil), "ref" (a Ref whose Value is the referenced       *)
(* component's) and "inline" (no Ref, a Value).                            *)
(***************************************************************************)
EXTENDS Integers, Sequences, FiniteSets, TLC

VARIABLES doc, heap, schemas, paths, err, last, pre, cycles, reruns,
          template, colon, braces

\* The path template given to util.ParamStyleToColon, its result, and the
\* result of util.ParamStyleToBraces on that.
utilVars == <<template, colon, braces>>

vars == <<doc, heap, schemas, paths, err, last, pre, cycles, reruns, template, colon, braces>>

(***************************************************************************)
(* Bounds of the model.                                                    *)
(***************************************************************************)
\* Recursion budget of ParseSchema: reaching it stands for a resolution
\* that does not terminate.
MaxDepth == 8

\* How often a pass may be run again right after itself.
MaxReruns == 1

(***************************************************************************)
(* Small helpers.                                                          *)
(***************************************************************************)
Range(s) == {s[i] : i \in 1..Len(s)}

Reverse(s) == [i \in 1..Len(s) |-> s[Len(s) + 1 - i]]

RECURSIVE Flatten(_)
Flatten(ss) == IF ss = <<>> THEN <<>> ELSE Head(ss) \o Flatten(Tail(ss))

(***************************************************************************)
(* The raw input (the decoder's output).                                   *)
(***************************************************************************)
NilRef == [kind |-> "nil"]
EmptyRef == [kind |-> "empty"]
Unresolved(name) == [kind |-> "unresolved", Ref |-> name]
Ref(name) == [kind |-> "ref", Ref |-> name]
Inline(body) == [kind |-> "inline", Value |-> body]

\* The extension (override) of a raw node: absent, present but not
\* decodable, or decoded into OpenAPI3SchemaExtension.
NoExt == [state |-> "none", Type |-> <<>>, Create |-> "nil", CanBeNil |-> FALSE]
BadExt == [state |-> "bad", Type |-> <<>>, Create |-> "nil", CanBeNil |-> FALSE]
Ext(type, create, canBeNil) ==
    [state |-> "ok", Type |-> type, Create |-> create, CanBeNil |-> canBeNil]

\* A raw schema body (openapi3.Schema); a list that is nil in Go has has = FALSE.
NoList == [has |-> FALSE, items |-> <<>>]
List(s) == [has |-> TRUE, items |-> s]
Body == [Type |-> "", Format |-> "", Nullable |-> FALSE, Ext |-> NoExt,
         AllOf |-> NoList, AnyOf |-> NoList, OneOf |-> NoList,
         Properties |-> <<>>, Required |-> {}, Items |-> NilRef,
         AdditionalProperties |-> NilRef, AdditionalPropertiesAllowed |-> FALSE]

StrBody == [Body EXCEPT !.Type = "string"]
IntBody == [Body EXCEPT !.Type = "integer"]
Obj(props, required) ==
    [Body EXCEPT !.Type = "object", !.Properties = props, !.Required = required]
Arr(item) == [Body EXCEPT !.Type = "array", !.Items = item]
AllOfBody(members) == [Body EXCEPT !.AllOf = List(members)]
AnyOfBody(members) == [Body EXCEPT !.AnyOf = List(members)]
OneOfBody(members) == [Body EXCEPT !.OneOf = List(members)]
WithExt(body, ext) == [body EXCEPT !.Ext = ext]
WithAP(body, ap) == [body EXCEPT !.AdditionalProperties = ap]
Open(body) == [body EXCEPT !.AdditionalPropertiesAllowed = TRUE]

(***************************************************************************)
(* The schema node (spec.Schema) and the heap.                             *)
(***************************************************************************)
NewSchema ==
    [Name |-> <<>>, OriginalName |-> <<>>, FieldName |-> <<>>, PrimitiveType |-> "",
     Nullable |-> FALSE, Create |-> FALSE, Variant |-> "", Tags |-> <<>>,
     Comments |-> <<>>, AdditionalProps |-> 0,
     ChildKind |-> "nil", Children |-> <<>>, Keys |-> <<>>]

VariantPrimitive == "simple"
VariantAny == "any"
VariantArray == "array"
VariantMap == "map"
VariantStruct == "struct"
VariantAllOf == "allOf"
VariantAnyOf == "anyOf"
VariantOneOf == "oneOf"

\* WithChildren for a *Schema, a []*Schema and a map[string]*Schema.
WithChild(n, c) == [n EXCEPT !.ChildKind = "schema", !.Children = <<c>>, !.Keys = <<>>]
WithArray(n, cs) == [n EXCEPT !.ChildKind = "array", !.Children = cs, !.Keys = <<>>]
WithMap(n, keys, cs) == [n EXCEPT !.ChildKind = "map", !.Children = cs, !.Keys = keys]

Primitive(n, t) == [n EXCEPT !.Variant = VariantPrimitive, !.PrimitiveType = t]
SetAny(n) == [n EXCEPT !.Variant = VariantAny]
AllOf(n, cs) == WithArray([n EXCEPT !.Variant = VariantAllOf], cs)
AnyOf(n, cs) == WithArray([n EXCEPT !.Variant = VariantAnyOf], cs)
OneOf(n, cs) == WithArray([n EXCEPT !.Variant = VariantOneOf], cs)
Array(n, c) == WithChild([n EXCEPT !.Variant = VariantArray], c)
Struct(n, keys, cs) == WithMap([n EXCEPT !.Variant = VariantStruct], keys, cs)

\* Schema.Map sets the variant and the two children; it leaves the
\* AdditionalProps field of the node as it is.
Map(n, key, value) == WithArray([n EXCEPT !.Variant = VariantMap], <<key, value>>)

CanBeNil(n) == n.Variant \in {VariantMap, VariantArray, VariantOneOf, VariantAnyOf, VariantAny}

\* The pointers a node holds, in the order Schema.walk follows them.
Slots(n) == (IF n.AdditionalProps # 0 THEN <<n.AdditionalProps>> ELSE <<>>) \o n.Children

\* deepcopy.Copy: a fresh copy of every node below id, one per pointer
\* followed (two pointers to one node become two copies).
RECURSIVE DeepCopy(_, _)
RECURSIVE CopyAll(_, _, _)
CopyAll(h, h0, ids) ==
    IF ids = <<>> THEN [ids |-> <<>>, h |-> h]
    ELSE LET c == DeepCopy([h |-> h, src |-> h0], Head(ids))
             r == CopyAll(c.h, h0, Tail(ids))
         IN [ids |-> <<c.id>> \o r.ids, h |-> r.h]
DeepCopy(hs, id) ==
    LET n == hs.src[id]
        ap == IF n.AdditionalProps = 0 THEN [ids |-> <<0>>, h |-> hs.h]
              ELSE CopyAll(hs.h, hs.src, <<n.AdditionalProps>>)
        cs == CopyAll(ap.h, hs.src, n.Children)
        m == [n EXCEPT !.AdditionalProps = ap.ids[1], !.Children = cs.ids]
    IN [id |-> Len(cs.h) + 1, h |-> Append(cs.h, m)]

Copy(h, id) == DeepCopy([h |-> h, src |-> h], id)

(***************************************************************************)
(* A Go string is the sequence of its characters (one-character strings);  *)
(* the tags of an enumeration (variants, primitive types, errors) are      *)
(* TLA+ strings.                                                           *)
(***************************************************************************)
Lower == <<"a", "b", "c", "d", "e", "f", "g", "h", "i", "j", "k", "l", "m",
           "n", "o", "p", "q", "r", "s", "t", "u", "v", "w", "x", "y", "z">>
Upper == <<"A", "B", "C", "D", "E", "F", "G", "H", "I", "J", "K", "L", "M",
           "N", "O", "P", "Q", "R", "S", "T", "U", "V", "W", "X", "Y", "Z">>
Digits == {"0", "1", "2", "3", "4", "5", "6", "7", "8", "9"}

IsLower(c) == c \in Range(Lower)
IsUpper(c) == c \in Range(Upper)
IsDigit(c) == c \in Digits
IsLetter(c) == IsLower(c) \/ IsUpper(c)

ToUpperChar(c) ==
    IF IsLower(c) THEN Upper[CHOOSE i \in 1..26 : Lower[i] = c] ELSE c
ToLowerChar(c) ==
    IF IsUpper(c) THEN Lower[CHOOSE i \in 1..26 : Upper[i] = c] ELSE c

ToLower(s) == [i \in 1..Len(s) |-> ToLowerChar(s[i])]

\* strcase.ToCamel: letters and digits are kept, every other character is
\* dropped; a lower-case letter is capitalised at the start and after one of
\* "_", " ", "-", ".".
CamelFrom(s, capNext) ==
    LET Cap(i) == IF i = 1 THEN capNext ELSE s[i - 1] \in {"_", " ", "-", "."}
        Out(i) == IF IsUpper(s[i]) \/ IsDigit(s[i]) THEN s[i]
                  ELSE IF IsLower(s[i]) THEN (IF Cap(i) THEN ToUpperChar(s[i]) ELSE s[i])
                  ELSE ""
    IN SelectSeq([i \in 1..Len(s) |-> Out(i)], LAMBDA c : c # "")

RECURSIVE TrimSpaces(_)
TrimSpaces(s) ==
    IF s # <<>> /\ Head(s) = " " THEN TrimSpaces(Tail(s))
    ELSE IF s # <<>> /\ s[Len(s)] = " " THEN TrimSpaces(SubSeq(s, 1, Len(s) - 1))
    ELSE s

ToCamel(s) == CamelFrom(TrimSpaces(s), TRUE)

\* strings.Title: the first letter of every word (a run of letters after a
\* character that is no letter or digit) is upper-cased.
Title(s) ==
    [i \in 1..Len(s) |->
        IF i = 1 \/ ~(IsLetter(s[i - 1]) \/ IsDigit(s[i - 1]) \/ s[i - 1] = "_")
        THEN ToUpperChar(s[i]) ELSE s[i]]

\* strings.Split(s, sep) for a one-character sep: never an empty list.
Split(s, sep) ==
    LET cuts == <<0>> \o SelectSeq([i \in 1..Len(s) |-> i], LAMBDA i : s[i] = sep)
                     \o <<Len(s) + 1>>
    IN [k \in 1..(Len(cuts) - 1) |-> SubSeq(s, cuts[k] + 1, cuts[k + 1] - 1)]

RECURSIVE Join(_, _)
Join(parts, sep) ==
    IF parts = <<>> THEN <<>>
    ELSE IF Len(parts) = 1 THEN parts[1]
    ELSE parts[1] \o <<sep>> \o Join(Tail(parts), sep)

\* strings.Trim(s, cutset): the leading and trailing characters of cutset go.
RECURSIVE Trim(_, _)
Trim(s, cutset) ==
    IF s # <<>> /\ Head(s) \in cutset THEN Trim(Tail(s), cutset)
    ELSE IF s # <<>> /\ s[Len(s)] \in cutset THEN Trim(SubSeq(s, 1, Len(s) - 1), cutset)
    ELSE s

Contains(s, c) == \E i \in 1..Len(s) : s[i] = c

\* util.ToGoName: Go's naming of initialisms, here the word Id (an I, a d,
\* then no lower-case letter) becomes ID.
ToGoName(s) ==
    [i \in 1..Len(s) |->
        IF i > 1 /\ s[i - 1] = "I" /\ s[i] = "d" /\ (i = Len(s) \/ ~IsLower(s[i + 1]))
        THEN "D" ELSE s[i]]

\* fmt.Sprintf: the format and the values put into it.
Sprintf(format, args) == [format |-> format, args |-> args]

(***************************************************************************)
(* OpenAPI3.ParseSchema.                                                   *)
(***************************************************************************)
\* The components of the document.  A component that is itself a reference
\* has the value of the component it names.
ComponentRef(name) ==
    LET i == CHOOSE i \in 1..Len(doc.components) : doc.components[i].key = name
    IN doc.components[i].ref

RECURSIVE ValueOf(_)
ValueOf(sref) ==
    IF sref.kind = "inline" THEN sref.Value ELSE ValueOf(ComponentRef(sref.Ref))

Fail(h, e) == [h |-> h, id |-> 0, err |-> e, cyc |-> {}]
Done(h, id, cyc) == [h |-> h, id |-> id, err |-> "", cyc |-> cyc]

\* GetExtension and the test made of its error: a value that cannot be
\* decoded is an error, a missing extension is not.
ExtensionErrorIgnored(ext) == ""

ExtensionError(ext) == IF ext.state = "bad" THEN "invalid extension" ELSE ""

\* The ancestor a node named `name` repeats: the first node of `visited`
\* with that name, 0 if there is none.
CycleAncestorNever(h, name, visited) == 0

CycleAncestor(h, name, visited) ==
    IF name # <<>> /\ \E i \in 1..Len(visited) : h[visited[i]].Name = name
    THEN visited[CHOOSE i \in 1..Len(visited) :
                    /\ h[visited[i]].Name = name
                    /\ \A j \in 1..(i - 1) : h[visited[j]].Name # name]
    ELSE 0

\* The primitive a type and format stand for; "" for an unknown type, and
\* "[]byte" for the byte array.
PrimitiveOf(type, format) ==
    CASE type = "string" ->
            (IF format \in {"date", "date-time"} THEN "time.Time"
             ELSE IF format \in {"byte", "binary"} THEN "[]byte" ELSE "string")
      [] type = "number" -> (IF format = "float" THEN "float32" ELSE "float64")
      [] type = "integer" ->
            (IF format = "int32" THEN "int32"
             ELSE IF format = "int64" THEN "int64" ELSE "int")
      [] type = "boolean" -> "bool"
      [] OTHER -> ""

\* Whether a property left out of the required list makes its schema nullable.
PropertyNullable(child, propname, required) == child.Nullable \/ propname \notin required

RECURSIVE ParseSchema(_, _, _, _)
RECURSIVE ParseMembers(_, _, _, _)
RECURSIVE ParseProperties(_, _, _, _, _)

\* The members of an allOf, anyOf or oneOf, in order; the first error ends it.
MembersJoin(r, rest) ==
    [h |-> rest.h, ids |-> <<r.id>> \o rest.ids, err |-> rest.err,
     cyc |-> r.cyc \cup rest.cyc]

MembersAfter(r, srefs, visited, fuel) ==
    IF r.err # "" THEN [h |-> r.h, ids |-> <<>>, err |-> r.err, cyc |-> {}]
    ELSE MembersJoin(r, ParseMembers(r.h, srefs, visited, fuel))

ParseMembers(h, srefs, visited, fuel) ==
    IF srefs = <<>> THEN [h |-> h, ids |-> <<>>, err |-> "", cyc |-> {}]
    ELSE MembersAfter(ParseSchema(h, Head(srefs), visited, fuel), Tail(srefs), visited, fuel)

\* The properties of an object: each is resolved, made nullable when it is
\* not required, given its field name, and stored under its Go name (a later
\* property with the same Go name replaces the earlier one).
HasKey(keys, key) == \E i \in 1..Len(keys) : keys[i] = key

PropertiesJoin(r, key, rest) ==
    [h |-> rest.h, err |-> rest.err, cyc |-> r.cyc \cup rest.cyc,
     keys |-> IF HasKey(rest.keys, key) THEN rest.keys ELSE <<key>> \o rest.keys,
     ids |-> IF HasKey(rest.keys, key) THEN rest.ids ELSE <<r.id>> \o rest.ids]

PropertyOf(c, p, required) ==
    [c EXCEPT !.Nullable = PropertyNullable(c, p.name, required), !.FieldName = p.name]

PropertiesAfter(r, p, props, required, visited, fuel) ==
    IF r.err # "" THEN [h |-> r.h, keys |-> <<>>, ids |-> <<>>, err |-> r.err, cyc |-> {}]
    ELSE PropertiesJoin(r, ToGoName(ToCamel(p.name)),
            ParseProperties([r.h EXCEPT ![r.id] = PropertyOf(r.h[r.id], p, required)],
                            props, required, visited, fuel))

ParseProperties(h, props, required, visited, fuel) ==
    IF props = <<>> THEN [h |-> h, keys |-> <<>>, ids |-> <<>>, err |-> "", cyc |-> {}]
    ELSE PropertiesAfter(ParseSchema(h, Head(props).schema, visited, fuel),
                         Head(props), Tail(props), required, visited, fuel)

\* allOf, anyOf, oneOf: the node holds its members.
CompoundAfter(m, id, s1, variant) ==
    IF m.err # "" THEN Fail(m.h, m.err)
    ELSE Done([m.h EXCEPT ![id] = IF variant = VariantAllOf THEN AllOf(s1, m.ids)
                                  ELSE IF variant = VariantAnyOf THEN AnyOf(s1, m.ids)
                                  ELSE OneOf(s1, m.ids)],
              id, m.cyc)

\* array: the node holds its items.
ArrayAfterLenient(item, id, s1) ==
    Done([item.h EXCEPT ![id] = Array(s1, item.id)], id, item.cyc)

ArrayAfter(item, id, s1) ==
    IF item.err # "" THEN Fail(item.h, item.err)
    ELSE Done([item.h EXCEPT ![id] = Array(s1, item.id)], id, item.cyc)

\* object, last step: with additional properties and no known field the node
\* is a map from string instead of a struct.
ObjectOfStruct(a, id, s2, nKeys, cyc) ==
    IF a.err # "" THEN Fail(a.h, a.err)
    ELSE Done([a.h EXCEPT ![id] = [s2 EXCEPT !.AdditionalProps = a.id]], id, cyc \cup a.cyc)

ObjectOf(a, id, s2, nKeys, cyc) ==
    IF a.err # "" THEN Fail(a.h, a.err)
    ELSE IF a.id # 0 /\ nKeys = 0
    THEN Done([Append(a.h, Primitive(NewSchema, "string"))
                  EXCEPT ![id] = Map([s2 EXCEPT !.AdditionalProps = a.id],
                                     Len(a.h) + 1, a.id)],
              id, cyc \cup a.cyc)
    ELSE Done([a.h EXCEPT ![id] = [s2 EXCEPT !.AdditionalProps = a.id]], id, cyc \cup a.cyc)

\* object, additional properties: `true` gives an any node, a schema is
\* resolved and replaces it.
AdditionalAllowed(h2, id, s2) ==
    [Append(h2, [NewSchema EXCEPT !.Variant = VariantAny])
        EXCEPT ![id] = [s2 EXCEPT !.AdditionalProps = Len(h2) + 1]]

AdditionalOf(h2, id, s2, value, visited, fuel) ==
    IF value.AdditionalProperties.kind # "nil"
    THEN ParseSchema(IF value.AdditionalPropertiesAllowed
                     THEN AdditionalAllowed(h2, id, s2) ELSE h2,
                     value.AdditionalProperties, visited, fuel)
    ELSE IF value.AdditionalPropertiesAllowed
    THEN Done(AdditionalAllowed(h2, id, s2), Len(h2) + 1, {})
    ELSE Done(h2, 0, {})

\* object, first step: the node is the struct of its properties.
ObjectStruct(ps, id, s2, value, visited, fuel) ==
    ObjectOf(AdditionalOf([ps.h EXCEPT ![id] = s2], id, s2, value, visited, fuel),
             id, s2, Len(ps.keys), ps.cyc)

ObjectAfter(ps, id, s1, value, visited, fuel) ==
    IF ps.err # "" THEN Fail(ps.h, ps.err)
    ELSE ObjectStruct(ps, id, Struct(s1, ps.keys, ps.ids), value, visited, fuel)

\* The shape of a node that is neither a reference to an external type nor a
\* repetition of an ancestor; h1[id] = s1 is the node, still without variant.
ParseShape(h1, id, s1, value, visited, fuel) ==
    IF value.AllOf.has
    THEN CompoundAfter(ParseMembers(h1, value.AllOf.items, visited, fuel), id, s1, VariantAllOf)
    ELSE IF value.AnyOf.has
    THEN CompoundAfter(ParseMembers(h1, value.AnyOf.items, visited, fuel), id, s1, VariantAnyOf)
    ELSE IF value.OneOf.has
    THEN CompoundAfter(ParseMembers(h1, value.OneOf.items, visited, fuel), id, s1, VariantOneOf)
    ELSE IF value.Type = "" THEN Done([h1 EXCEPT ![id] = SetAny(s1)], id, {})
    ELSE IF value.Type = "object"
    THEN ObjectAfter(ParseProperties(h1, value.Properties, value.Required, visited, fuel),
                     id, s1, value, visited, fuel)
    ELSE IF value.Type = "array"
    THEN ArrayAfter(ParseSchema(h1, value.Items, visited, fuel), id, s1)
    ELSE IF PrimitiveOf(value.Type, value.Format) = "[]byte"
    THEN Done([Append(h1, Primitive(NewSchema, "byte")) EXCEPT ![id] = Array(s1, id + 1)],
              id, {})
    ELSE IF PrimitiveOf(value.Type, value.Format) # ""
    THEN Done([h1 EXCEPT ![id] = Primitive(s1, PrimitiveOf(value.Type, value.Format))], id, {})
    ELSE Fail(h1, "unknown type")

\* A node returned as the deep copy of the ancestor it repeats.
CycleCopy(c) == Done(c.h, c.id, {c.id})

\* The name of a node: the type of its extension, else the reference.
RefName(sref) == IF sref.kind = "ref" THEN sref.Ref ELSE <<>>
SchemaName(sref, ext) == IF ext.Type # <<>> THEN ext.Type ELSE RefName(sref)

\* The extension, the external type, the repetition of an ancestor, then the
\* shape; s0 is the new node with its name.
ParseValue(h, value, s0, visited, fuel) ==
    IF ExtensionError(value.Ext) # "" THEN Fail(h, ExtensionError(value.Ext))
    ELSE IF value.Ext.Create = "false" /\ s0.Name # <<>>
    THEN Done(Append(h, IF value.Ext.CanBeNil THEN SetAny(s0)
                        ELSE [s0 EXCEPT !.Variant = VariantPrimitive]), Len(h) + 1, {})
    ELSE IF CycleAncestor(h, s0.Name, visited) # 0
    THEN CycleCopy(Copy(h, CycleAncestor(h, s0.Name, visited)))
    ELSE ParseShape(Append(h, [s0 EXCEPT !.Nullable = value.Nullable]), Len(h) + 1,
                    [s0 EXCEPT !.Nullable = value.Nullable], value,
                    Append(visited, Len(h) + 1), fuel - 1)

ParseSchema(h, sref, visited, fuel) ==
    IF fuel = 0 THEN Fail(h, "diverges")
    ELSE IF sref.kind \in {"nil", "empty"} THEN Fail(h, "schema is missing")
    ELSE IF sref.kind = "unresolved"
    THEN Done(Append(h, [NewSchema EXCEPT !.Name = sref.Ref, !.OriginalName = sref.Ref]),
              Len(h) + 1, {})
    ELSE ParseValue(h, ValueOf(sref),
                    [NewSchema EXCEPT !.Name = SchemaName(sref, ValueOf(sref).Ext),
                                      !.OriginalName = RefName(sref),
                                      !.Create = (ValueOf(sref).Ext.Create = "true")],
                    visited, fuel)

(***************************************************************************)
(* The raw paths and OpenAPI3.ParsePath, ParseOperation, ParseParameter    *)
(* and ParseCallbacks.  A Go map of the document is the sequence of its    *)
(* entries in the order the iteration yields them.                         *)
(***************************************************************************)
\* The name extension of a path or a response.
NoName == [state |-> "none", Name |-> <<>>]
BadName == [state |-> "bad", Name |-> <<>>]
NameExt(name) == [state |-> "ok", Name |-> name]

Media(type, sref) == [type |-> type, schema |-> sref]
RawParam(name, in, sref) == [name |-> name, in |-> in, schema |-> sref, content |-> <<>>]
RawResponse(code, ext, content) == [code |-> code, ext |-> ext, content |-> content]
RawOp(id, params, body, responses, callbacks) ==
    [operationId |-> id, parameters |-> params, requestBody |-> body,
     responses |-> responses, callbacks |-> callbacks]
RawItem(ext, ops, params) == [ext |-> ext, operations |-> ops, parameters |-> params]

NewParameter(name, type, contentType, schema) ==
    [Name |-> name, Type |-> type, ContentType |-> contentType, Schema |-> schema]
NewResponse(name, code, contentType, schema) ==
    [Name |-> name, Code |-> code, ContentType |-> contentType, Schema |-> schema]

\* The state threaded through the parse: the heap, the first error, the
\* nodes returned as copies of an ancestor.
PErr(st, e) == [st EXCEPT !.err = e]
Failed(st) == [st |-> st, out |-> <<>>]

\* What a loop has appended: the output of one step, then that of the later
\* steps; the first error ends the loop.
Joined(out, rest) ==
    IF rest.st.err # "" THEN Failed(rest.st) ELSE [st |-> rest.st, out |-> out \o rest.out]

\* One ParseSchema call on a root, with no ancestors.
RootOf(st, r) == [st |-> [h |-> r.h, err |-> r.err, cyc |-> st.cyc \cup r.cyc], id |-> r.id]
ParseRoot(st, sref) == RootOf(st, ParseSchema(st.h, sref, <<>>, MaxDepth))

\* The schemas of a content map, one parameter or response for each entry;
\* an entry of a parameter's content without a schema gives no parameter.
RECURSIVE ParseContent(_, _, _, _, _, _)
ContentOf(id, m, name, type, kind, code) ==
    IF kind = "response" THEN <<NewResponse(name, code, m.type, id)>>
    ELSE IF kind = "body" \/ id # 0 THEN <<NewParameter(name, type, m.type, id)>>
    ELSE <<>>

ContentAfter(r, m, content, name, type, kind, code) ==
    IF r.st.err # "" THEN Failed(r.st)
    ELSE Joined(ContentOf(r.id, m, name, type, kind, code),
                ParseContent(r.st, content, name, type, kind, code))

ParseContent(st, content, name, type, kind, code) ==
    IF content = <<>> THEN [st |-> st, out |-> <<>>]
    ELSE ContentAfter(IF Head(content).schema.kind = "nil" THEN [st |-> st, id |-> 0]
                      ELSE ParseRoot(st, Head(content).schema),
                      Head(content), Tail(content), name, type, kind, code)

ParameterTypes == {"query", "header", "path", "cookie"}

ParameterAfter(r, p) ==
    IF r.st.err # "" THEN Failed(r.st)
    ELSE Joined(<<NewParameter(p.name, p.in, <<>>, r.id)>>,
                ParseContent(r.st, p.content, p.name, p.in, "parameter", <<>>))

ParseParameter(st, p) ==
    IF p.in \notin ParameterTypes THEN Failed(PErr(st, "invalid parameter type"))
    ELSE IF p.schema.kind = "nil"
    THEN ParseContent(st, p.content, p.name, p.in, "parameter", <<>>)
    ELSE ParameterAfter(ParseRoot(st, p.schema), p)

RECURSIVE ParseParameters(_, _)
ParametersAfter(r, ps) ==
    IF r.st.err # "" THEN Failed(r.st) ELSE Joined(r.out, ParseParameters(r.st, ps))

ParseParameters(st, ps) ==
    IF ps = <<>> THEN [st |-> st, out |-> <<>>]
    ELSE ParametersAfter(ParseParameter(st, Head(ps)), Tail(ps))

ParseResponse(st, res) ==
    IF res.ext.state = "bad" THEN Failed(PErr(st, "invalid extension"))
    ELSE IF res.content = <<>>
    THEN [st |-> st, out |-> <<NewResponse(TrimSpaces(res.ext.Name), res.code, <<>>, 0)>>]
    ELSE ParseContent(st, res.content, TrimSpaces(res.ext.Name), "", "response", res.code)

RECURSIVE ParseResponses(_, _)
ResponsesAfter(r, rs) ==
    IF r.st.err # "" THEN Failed(r.st) ELSE Joined(r.out, ParseResponses(r.st, rs))

ParseResponses(st, rs) ==
    IF rs = <<>> THEN [st |-> st, out |-> <<>>]
    ELSE ResponsesAfter(ParseResponse(st, Head(rs)), Tail(rs))

AppendToAll(ops, params) ==
    [i \in 1..Len(ops) |-> [ops[i] EXCEPT !.Parameters = @ \o params]]

RECURSIVE ParsePath(_, _, _)
RECURSIVE ParseOperations(_, _)
RECURSIVE ParseOperation(_, _)
RECURSIVE ParseCallbacks(_, _)
RECURSIVE ParseCallbackPaths(_, _)

\* The parameters, the request body, the responses and the callbacks, in
\* this order; the first error ends the operation.
OperationOf(params, responses, cbs, op) ==
    IF cbs.st.err # "" THEN Failed(cbs.st)
    ELSE [st |-> cbs.st,
          out |-> [Name |-> ToCamel(op.operationId), Method |-> <<>>, Comments |-> <<>>,
                   Parameters |-> params, Responses |-> responses, Callbacks |-> cbs.out]]

OperationCallbacks(params, rs, op) ==
    IF rs.st.err # "" THEN Failed(rs.st)
    ELSE OperationOf(params, rs.out, ParseCallbacks(rs.st, op.callbacks), op)

OperationResponses(params, body, op) ==
    IF body.st.err # "" THEN Failed(body.st)
    ELSE OperationCallbacks(params \o body.out, ParseResponses(body.st, op.responses), op)

OperationBody(ps, op) ==
    IF ps.st.err # "" THEN Failed(ps.st)
    ELSE OperationResponses(ps.out,
            ParseContent(ps.st, op.requestBody, <<"b", "o", "d", "y">>, "body", "body", <<>>),
            op)

ParseOperation(st, op) == OperationBody(ParseParameters(st, op.parameters), op)

OperationsAfter(r, method, ops) ==
    IF r.st.err # "" THEN Failed(r.st)
    ELSE Joined(<<[r.out EXCEPT !.Method = method]>>, ParseOperations(r.st, ops))

ParseOperations(st, ops) ==
    IF ops = <<>> THEN [st |-> st, out |-> <<>>]
    ELSE OperationsAfter(ParseOperation(st, Head(ops).op), Head(ops).method, Tail(ops))

\* The parameters on a path are resolved once and the same parameters are
\* appended to every operation of the path.
PathOf(ops, ps, item, url) ==
    IF ps.st.err # "" THEN Failed(ps.st)
    ELSE [st |-> ps.st,
          out |-> [PathString |-> url, Name |-> item.ext.Name,
                   Operations |-> AppendToAll(ops, ps.out)]]

PathParameters(ops, item, url) ==
    IF ops.st.err # "" THEN Failed(ops.st)
    ELSE PathOf(ops.out, ParseParameters(ops.st, item.parameters), item, url)

ParsePath(st, item, url) ==
    IF item.ext.state = "bad" THEN Failed(PErr(st, "invalid extension"))
    ELSE PathParameters(ParseOperations(st, item.operations), item, url)

CallbackPathsAfter(r, cbPaths) ==
    IF r.st.err # "" THEN Failed(r.st)
    ELSE Joined(<<r.out>>, ParseCallbackPaths(r.st, cbPaths))

ParseCallbackPaths(st, cbPaths) ==
    IF cbPaths = <<>> THEN [st |-> st, out |-> <<>>]
    ELSE CallbackPathsAfter(ParsePath(st, Head(cbPaths).item, Head(cbPaths).url),
                            Tail(cbPaths))

\* The callbacks of an operation, keyed by the Go name of the event (a later
\* event with the same key replaces the earlier one).
CallbacksJoin(key, ps, rest) ==
    IF rest.st.err # "" THEN Failed(rest.st)
    ELSE [st |-> rest.st,
          out |-> IF \E i \in 1..Len(rest.out) : rest.out[i].key = key THEN rest.out
                  ELSE <<[key |-> key, paths |-> ps]>> \o rest.out]

CallbacksAfter(r, event, cbs) ==
    IF r.st.err # "" THEN Failed(r.st)
    ELSE CallbacksJoin(ToGoName(Title(ToCamel(event))), r.out, ParseCallbacks(r.st, cbs))

ParseCallbacks(st, cbs) ==
    IF cbs = <<>> THEN [st |-> st, out |-> <<>>]
    ELSE CallbacksAfter(ParseCallbackPaths(st, Head(cbs).paths), Head(cbs).event, Tail(cbs))

RECURSIVE ParsePaths(_, _)
PathsAfter(r, ps) ==
    IF r.st.err # "" THEN Failed(r.st) ELSE Joined(<<r.out>>, ParsePaths(r.st, ps))

ParsePaths(st, ps) ==
    IF ps = <<>> THEN [st |-> st, out |-> <<>>]
    ELSE PathsAfter(ParsePath(st, Head(ps).item, Head(ps).url), Tail(ps))

\* ParseSchemas: every component is resolved; one that has no name after
\* resolution gets its key as name and is created unless its extension says
\* create: false.
TopLevel(n, key, ext) ==
    IF n.Name = <<>> THEN [n EXCEPT !.Name = key, !.Create = (ext.Create # "false")] ELSE n

RECURSIVE ParseSchemas(_, _)
SchemasAfter(r, c, comps) ==
    IF r.st.err # "" THEN Failed(r.st)
    ELSE Joined(<<r.id>>,
                ParseSchemas([r.st EXCEPT !.h[r.id] = TopLevel(@, c.key, ValueOf(c.ref).Ext)],
                             comps))

ParseSchemas(st, comps) ==
    IF comps = <<>> THEN [st |-> st, out |-> <<>>]
    ELSE IF Head(comps).ref.kind \in {"nil", "empty", "unresolved"}
    THEN ParseSchemas(st, Tail(comps))
    ELSE SchemasAfter(ParseRoot(st, Head(comps).ref), Head(comps), Tail(comps))

\* OpenAPI3.Parse: the schemas, then the paths; an error gives no Spec.
NoSpec(e) == [heap |-> <<>>, schemas |-> <<>>, paths |-> <<>>, err |-> e, cyc |-> {}]

DocOf(ss, ps) ==
    IF ps.st.err # "" THEN NoSpec(ps.st.err)
    ELSE [heap |-> ps.st.h, schemas |-> ss, paths |-> ps.out, err |-> "",
          cyc |-> ps.st.cyc]

DocPaths(ss, d) ==
    IF ss.st.err # "" THEN NoSpec(ss.st.err) ELSE DocOf(ss.out, ParsePaths(ss.st, d.paths))

ParseDoc(d) == DocPaths(ParseSchemas([h |-> <<>>, err |-> "", cyc |-> {}], d.components), d)

(***************************************************************************)
(* Schema.Walk.                                                            *)
(***************************************************************************)
\* Schema.walk: the node, then its additional properties, then its children.
\* The children of a struct are a Go map: the nodes of `rev` iterate theirs
\* in the reverse order.
RECURSIVE WalkPaths(_, _, _, _)
RECURSIVE WalkEach(_, _, _, _)
WalkEach(h, ids, path, rev) ==
    IF ids = <<>> THEN <<>>
    ELSE WalkPaths(h, Head(ids), path, rev) \o WalkEach(h, Tail(ids), path, rev)
WalkPaths(h, id, path, rev) ==
    LET n == h[id]
        newPath == Append(path, id)
        kids == IF n.ChildKind = "map" /\ id \in rev THEN Reverse(n.Children) ELSE n.Children
        ap == IF n.AdditionalProps # 0 THEN <<n.AdditionalProps>> ELSE <<>>
    IN <<newPath>> \o WalkEach(h, ap \o kids, newPath, rev)

\* Schema.Walk: the paths in the order the walker is called on them.
WalkTopDownOnly(h, id, bottomUp, rev) ==
    IF id = 0 THEN <<>> ELSE WalkPaths(h, id, <<>>, rev)

Walk(h, id, bottomUp, rev) ==
    IF id = 0 THEN <<>>
    ELSE IF bottomUp THEN Reverse(WalkPaths(h, id, <<>>, rev))
    ELSE WalkPaths(h, id, <<>>, rev)

\* The struct nodes whose iteration order can show.
MapNodes(h) == {i \in 1..Len(h) : h[i].ChildKind = "map" /\ Len(h[i].Children) > 1}

(***************************************************************************)
(* The schema roots the passes walk.                                       *)
(***************************************************************************)
ParamRoots(o) == [i \in 1..Len(o.Parameters) |-> o.Parameters[i].Schema]
ResponseRoots(o) == [i \in 1..Len(o.Responses) |-> o.Responses[i].Schema]
OperationRoots(o) == ParamRoots(o) \o ResponseRoots(o)

PathOperationRoots(p) ==
    Flatten([i \in 1..Len(p.Operations) |-> OperationRoots(p.Operations[i])])

CallbackRoots(o) ==
    Flatten([i \in 1..Len(o.Callbacks) |->
        Flatten([j \in 1..Len(o.Callbacks[i].paths) |->
            PathOperationRoots(o.Callbacks[i].paths[j])])])

\* The roots below the paths in the order ExtractSchemas and ExtractAllOfs
\* take them: per operation its parameters, its responses, its callbacks.
RootsWithCallbacks(ps) ==
    Flatten([i \in 1..Len(ps) |->
        Flatten([j \in 1..Len(ps[i].Operations) |->
            OperationRoots(ps[i].Operations[j]) \o CallbackRoots(ps[i].Operations[j])])])

\* The roots SimplifyInlineSchemas takes: no callbacks.
RootsWithoutCallbacks(ps) == Flatten([i \in 1..Len(ps) |-> PathOperationRoots(ps[i])])

HasNameNever(h, ids, name) == FALSE

HasName(h, ids, name) == \E i \in 1..Len(ids) : h[ids[i]].Name = name

(***************************************************************************)
(* Default.ExtractSchemas.                                                 *)
(***************************************************************************)
\* The walker: a creatable named node is copied to the registry unless the
\* registry has its name, and is no longer created in place.
ExtractVisitUnnamed(st, path, extractRoot) ==
    LET id == path[Len(path)]
        n == st.h[id]
        c == Copy(st.h, id)
        st1 == IF HasName(st.h, st.schemas, n.Name) THEN st
               ELSE [st EXCEPT !.h = c.h, !.schemas = Append(@, c.id)]
    IN IF ~extractRoot /\ Len(path) < 2 THEN st
       ELSE IF n.Create
       THEN [st1 EXCEPT !.h = [@ EXCEPT ![id] = [@ EXCEPT !.Create = FALSE]]]
       ELSE st

ExtractVisitPrepend(st, path, extractRoot) ==
    LET id == path[Len(path)]
        n == st.h[id]
        c == Copy(st.h, id)
        st1 == IF HasName(st.h, st.schemas, n.Name) THEN st
               ELSE [st EXCEPT !.h = c.h, !.schemas = <<c.id>> \o @]
    IN IF ~extractRoot /\ Len(path) < 2 THEN st
       ELSE IF n.Create /\ n.Name # <<>>
       THEN [st1 EXCEPT !.h = [@ EXCEPT ![id] = [@ EXCEPT !.Create = FALSE]]]
       ELSE st

ExtractVisit(st, path, extractRoot) ==
    LET id == path[Len(path)]
        n == st.h[id]
        c == Copy(st.h, id)
        st1 == IF HasName(st.h, st.schemas, n.Name) THEN st
               ELSE [st EXCEPT !.h = c.h, !.schemas = Append(@, c.id)]
    IN IF ~extractRoot /\ Len(path) < 2 THEN st
       ELSE IF n.Create /\ n.Name # <<>>
       THEN [st1 EXCEPT !.h = [@ EXCEPT ![id] = [@ EXCEPT !.Create = FALSE]]]
       ELSE st

RECURSIVE ExtractWalk(_, _, _)
ExtractWalk(st, walk, extractRoot) ==
    IF walk = <<>> \/ st.err # "" THEN st
    ELSE ExtractWalk(ExtractVisit(st, Head(walk), extractRoot), Tail(walk), extractRoot)

\* The order of the walks of ExtractSchemas.
ExtractTopDown == FALSE

ExtractBottomUp == TRUE

RECURSIVE ExtractRoots(_, _, _, _)
ExtractRoots(st, roots, extractRoot, rev) ==
    IF roots = <<>> \/ st.err # "" THEN st
    ELSE ExtractRoots(
            ExtractWalk(st, Walk(st.h, Head(roots), ExtractBottomUp, rev), extractRoot),
            Tail(roots), extractRoot, rev)

\* The registry entries present at the start are walked with their roots
\* exempt, then every parameter, response and callback schema, root included;
\* an error of the walker would end the pass (it returns none).
ExtractSchemasRootsExempt(h, ss, ps, rev) ==
    LET st == ExtractRoots([h |-> h, schemas |-> ss, err |-> ""], ss, FALSE, rev)
    IN ExtractRoots(st, RootsWithCallbacks(ps), FALSE, rev)

ExtractSchemasOf(h, ss, ps, rev) ==
    LET st == ExtractRoots([h |-> h, schemas |-> ss, err |-> ""], ss, FALSE, rev)
    IN ExtractRoots(st, RootsWithCallbacks(ps), TRUE, rev)

(***************************************************************************)
(* Default.ExtractAllOfs.                                                  *)
(***************************************************************************)
Fragment == <<"F", "r", "a", "g", "m", "e", "n", "t">>
UnnamedFragment == <<"U", "n", "n", "a", "m", "e", "d">> \o Fragment

\* strconv.Itoa of a natural number.
RECURSIVE Itoa(_)
Itoa(n) ==
    LET d == <<"0", "1", "2", "3", "4", "5", "6", "7", "8", "9">>[(n % 10) + 1]
    IN IF n < 10 THEN <<d>> ELSE Itoa(n \div 10) \o <<d>>

\* The name of member i (from 0) of the allOf `parent`.
FragmentName(parent, child, i, count) ==
    IF child.Name # <<>> THEN child.Name
    ELSE IF parent.Name # <<>> THEN parent.Name \o Fragment \o Itoa(i)
    ELSE UnnamedFragment \o Itoa(count)

\* One member of a creatable allOf.
ExtractMember(st, parentId, i) ==
    LET parent == st.h[parentId]
        cid == parent.Children[i + 1]
        child == st.h[cid]
        name == FragmentName(parent, child, i, st.fragmentCount)
        count == IF child.Name = <<>> /\ parent.Name = <<>>
                 THEN st.fragmentCount + 1 ELSE st.fragmentCount
        named == [child EXCEPT !.Name = name]
        h1 == [st.h EXCEPT ![cid] = [named EXCEPT !.Create = TRUE]]
        c == Copy(h1, cid)
        comment == Sprintf("%v is a part of %v.", <<name, parent.Name>>)
        h2 == [c.h EXCEPT ![c.id] = [@ EXCEPT !.Comments = Append(@, comment)],
                          ![cid] = [named EXCEPT !.Create = FALSE]]
    IN IF child.Name # <<>> /\ HasName(st.h, st.schemas, child.Name)
       THEN [st EXCEPT !.h = [@ EXCEPT ![cid] = [child EXCEPT !.Create = FALSE]]]
       ELSE IF HasName(st.h, st.schemas, name)
       THEN [st EXCEPT !.h = [@ EXCEPT ![cid] = [named EXCEPT !.Create = FALSE]],
                       !.fragmentCount = count]
       ELSE [st EXCEPT !.h = h2, !.schemas = Append(@, c.id), !.fragmentCount = count]

RECURSIVE ExtractMembers(_, _, _)
ExtractMembers(st, parentId, i) ==
    IF i >= Len(st.h[parentId].Children) THEN st
    ELSE ExtractMembers(ExtractMember(st, parentId, i), parentId, i + 1)

AllOfVisit(st, path) ==
    LET id == path[Len(path)]
        n == st.h[id]
    IN IF n.Variant # VariantAllOf \/ ~n.Create THEN st
       ELSE ExtractMembers(st, id, 0)

RECURSIVE AllOfWalk(_, _)
AllOfWalk(st, walk) ==
    IF walk = <<>> \/ st.err # "" THEN st
    ELSE AllOfWalk(AllOfVisit(st, Head(walk)), Tail(walk))

RECURSIVE AllOfRoots(_, _, _)
AllOfRoots(st, roots, rev) ==
    IF roots = <<>> \/ st.err # "" THEN st
    ELSE AllOfRoots(AllOfWalk(st, Walk(st.h, Head(roots), TRUE, rev)), Tail(roots), rev)

\* The registry entries present at the start, then the schemas of the paths.
ExtractAllOfsOf(h, ss, ps, rev) ==
    AllOfRoots([h |-> h, schemas |-> ss, fragmentCount |-> 0, err |-> ""],
               ss \o RootsWithCallbacks(ps), rev)

(***************************************************************************)
(* Default.SimplifyInlineSchemas.                                          *)
(***************************************************************************)
SimplifyVisit(st, path) ==
    LET id == path[Len(path)]
        n == st.h[id]
        asMap == n.AdditionalProps # 0 /\ n.Name = <<>>
        h1 == IF asMap
              THEN [Append(st.h, Primitive(NewSchema, "string"))
                       EXCEPT ![id] = Map(n, Len(st.h) + 1, n.AdditionalProps)]
              ELSE st.h
        m == h1[id]
    IN IF m.Name = <<>> /\ m.Variant \in {VariantAnyOf, VariantOneOf}
       THEN [st EXCEPT !.h = [h1 EXCEPT ![id] = SetAny(m)]]
       ELSE [st EXCEPT !.h = h1]

RECURSIVE SimplifyWalk(_, _)
SimplifyWalk(st, walk) ==
    IF walk = <<>> \/ st.err # "" THEN st
    ELSE SimplifyWalk(SimplifyVisit(st, Head(walk)), Tail(walk))

RECURSIVE SimplifyRoots(_, _, _)
SimplifyRoots(st, roots, rev) ==
    IF roots = <<>> \/ st.err # "" THEN st
    ELSE SimplifyRoots(SimplifyWalk(st, Walk(st.h, Head(roots), TRUE, rev)), Tail(roots), rev)

\* The registry entries, then the parameters and responses of the paths.
SimplifyInlineSchemasOf(h, ss, ps, rev) ==
    SimplifyRoots([h |-> h, err |-> ""], ss \o RootsWithoutCallbacks(ps), rev)

(***************************************************************************)
(* The naming passes.                                                      *)
(***************************************************************************)
MapSeq(s, F(_)) == [i \in 1..Len(s) |-> F(s[i])]

With == <<"W", "i", "t", "h">>
RootPath == <<"R", "o", "o", "t", "P", "a", "t", "h">>
Response == <<"R", "e", "s", "p", "o", "n", "s", "e">>

\* One part of a path: a {variable} becomes With<Variable>.
PathPartPlain(x) == ToCamel(x)

PathPart(x) ==
    IF Contains(x, "{") THEN With \o ToCamel(Trim(x, {"{", "}"})) ELSE ToCamel(x)

\* The name made of a path string; Split gives at least one part, so the
\* RootPath branch of the code is never taken.
PathNameOf(prefix, pathString) ==
    LET parts == MapSeq(Split(pathString, "/"), PathPart)
    IN IF Len(parts) = 0 THEN prefix \o RootPath
       ELSE ToGoName(Title(prefix \o ToCamel(Join(parts, "/"))))

\* regexp \{\$[^}]+\} replaced by nothing: the runtime expressions go.
RECURSIVE RemoveRuntimeExpressions(_)
RemoveRuntimeExpressions(s) ==
    IF s = <<>> THEN <<>>
    ELSE IF /\ Len(s) >= 4 /\ s[1] = "{" /\ s[2] = "$" /\ s[3] # "}"
            /\ \E j \in 4..Len(s) : s[j] = "}"
    THEN LET j == CHOOSE j \in 4..Len(s) : s[j] = "}" /\ \A k \in 4..(j - 1) : s[k] # "}"
         IN RemoveRuntimeExpressions(SubSeq(s, j + 1, Len(s)))
    ELSE <<Head(s)>> \o RemoveRuntimeExpressions(Tail(s))

\* The string up to its first "?".
BeforeQuery(s) ==
    IF Contains(s, "?")
    THEN SubSeq(s, 1, (CHOOSE i \in 1..Len(s) : s[i] = "?" /\ \A k \in 1..(i - 1) : s[k] # "?") - 1)
    ELSE s

CallbackPathName(cbName, cbPath) ==
    IF cbPath.Name # <<>> THEN cbPath.Name
    ELSE PathNameOf(cbName, BeforeQuery(RemoveRuntimeExpressions(cbPath.PathString)))

NameCallbacks(o) ==
    [o EXCEPT !.Callbacks = [i \in 1..Len(@) |->
        [@[i] EXCEPT !.paths = [j \in 1..Len(@) |->
            [@[j] EXCEPT !.Name = CallbackPathName(o.Callbacks[i].key, o.Callbacks[i].paths[j])]]]]]

PathName(p) == IF p.Name # <<>> THEN p.Name ELSE PathNameOf(<<>>, p.PathString)

\* Default.GeneratePathNames.
GeneratePathNamesOf(ps) ==
    [i \in 1..Len(ps) |->
        [ps[i] EXCEPT !.Operations = MapSeq(@, NameCallbacks), !.Name = PathName(ps[i])]]

OperationNamePlain(o, p) ==
    IF o.Name # <<>> THEN o.Name ELSE ToLower(o.Method) \o p.Name

OperationName(o, p) ==
    IF o.Name # <<>> THEN o.Name ELSE ToCamel(ToLower(o.Method) \o Title(p.Name))

NameOperations(p) ==
    [p EXCEPT !.Operations = [j \in 1..Len(@) |-> [@[j] EXCEPT !.Name = OperationName(p.Operations[j], p)]]]

\* Default.GenerateOperationNames: the paths in order; the first path without
\* a name ends the pass with an error, the paths before it stay named.
RECURSIVE GenerateOperationNamesFrom(_, _)
GenerateOperationNamesFrom(ps, i) ==
    IF i > Len(ps) THEN [paths |-> ps, err |-> ""]
    ELSE IF ps[i].Name = <<>> THEN [paths |-> ps, err |-> "path has no name"]
    ELSE GenerateOperationNamesFrom([ps EXCEPT ![i] = NameOperations(@)], i + 1)

GenerateOperationNamesOf(ps) == GenerateOperationNamesFrom(ps, 1)

ResponseName(r, o) ==
    IF r.Name # <<>> THEN ToGoName(ToCamel(r.Name))
    ELSE o.Name \o Response \o ToCamel(r.Code)

NameResponses(o) ==
    [o EXCEPT !.Responses = [k \in 1..Len(@) |-> [@[k] EXCEPT !.Name = ResponseName(o.Responses[k], o)]]]

\* Default.GenerateResponseNames: the operations of the paths in order; the
\* first operation without a name ends the pass with an error.
RECURSIVE GenerateResponseNamesFrom(_, _, _)
GenerateResponseNamesFrom(ps, i, j) ==
    IF i > Len(ps) THEN [paths |-> ps, err |-> ""]
    ELSE IF j > Len(ps[i].Operations) THEN GenerateResponseNamesFrom(ps, i + 1, 1)
    ELSE IF ps[i].Operations[j].Name = <<>> THEN [paths |-> ps, err |-> "operation name is empty"]
    ELSE GenerateResponseNamesFrom(
            [ps EXCEPT ![i] = [@ EXCEPT !.Operations = [@ EXCEPT ![j] = NameResponses(@)]]],
            i, j + 1)

GenerateResponseNamesOf(ps) == GenerateResponseNamesFrom(ps, 1, 1)

(***************************************************************************)
(* Default.OrderResources.                                                 *)
(***************************************************************************)
\* The characters in the order of their codes.
Ascii == <<" ", "$", "-", ".", "/", "0", "1", "2", "3", "4", "5", "6", "7", "8", "9",
           ":", "?">> \o Upper \o <<"_">> \o Lower \o <<"{", "}">>

Code(c) == CHOOSE i \in 1..Len(Ascii) : Ascii[i] = c

\* a < b for Go strings.
StringLess(a, b) ==
    LET n == IF Len(a) < Len(b) THEN Len(a) ELSE Len(b)
        differ == {i \in 1..n : a[i] # b[i]}
        first == CHOOSE i \in differ : \A j \in differ : i <= j
    IN IF differ = {} THEN Len(a) < Len(b) ELSE Code(a[first]) < Code(b[first])

\* sort.Slice by name on a short slice: an insertion sort.
InsertByNameLast(sorted, x) == Append(sorted, x)

RECURSIVE InsertByName(_, _)
InsertByName(sorted, x) ==
    IF sorted = <<>> THEN <<x>>
    ELSE IF StringLess(x.Name, sorted[Len(sorted)].Name)
    THEN Append(InsertByName(SubSeq(sorted, 1, Len(sorted) - 1), x), sorted[Len(sorted)])
    ELSE Append(sorted, x)

RECURSIVE SortFrom(_, _)
SortFrom(sorted, rest) ==
    IF rest = <<>> THEN sorted ELSE SortFrom(InsertByName(sorted, Head(rest)), Tail(rest))

\* sort.Slice does not say in which order it leaves elements with equal
\* names: with `flip` they come out in the opposite order.
SortByName(s, flip) == SortFrom(<<>>, IF flip THEN Reverse(s) ELSE s)

SortOperation(o, flip) ==
    [o EXCEPT !.Parameters = SortByName(@, flip), !.Responses = SortByName(@, flip)]

\* The loop over the callback paths of one event: each round sorts the list
\* of paths and then the parameters and responses of the operations of the
\* path that was at place k before that round's sort.
RECURSIVE SortCallbackPaths(_, _, _)
SortCallbackPaths(cb, k, flip) ==
    IF k > Len(cb) THEN cb
    ELSE LET cbPath == cb[k]
             sorted == SortByName(cb, flip)
             at == CHOOSE i \in 1..Len(sorted) : sorted[i] = cbPath
             done == [cbPath EXCEPT !.Operations = [j \in 1..Len(@) |-> SortOperation(@[j], flip)]]
         IN SortCallbackPaths(
                [i \in 1..Len(sorted) |-> IF sorted[i] = cbPath THEN done ELSE sorted[i]],
                k + 1, flip)

SortOperationDeep(o, flip) ==
    [SortOperation(o, flip) EXCEPT !.Callbacks =
        [i \in 1..Len(@) |-> [@[i] EXCEPT !.paths = SortCallbackPaths(@, 1, flip)]]]

OrderResourcesOf(ps, flip) ==
    LET sorted == SortByName(ps, flip)
    IN [i \in 1..Len(sorted) |->
          [sorted[i] EXCEPT !.Operations =
              LET ops == SortByName(@, flip)
              IN [j \in 1..Len(ops) |-> SortOperationDeep(ops[j], flip)]]]

(***************************************************************************)
(* Default.AddTags.                                                        *)
(***************************************************************************)
\* A tag template is a sequence of segments: a text, or one of the values
\* FieldName, Type and Description.
Text(t) == [var |-> "", text |-> t]
Value(v) == [var |-> v, text |-> <<>>]

\* DefaultOptions: json: {{ .FieldName }}, omitempty.
DefaultTags ==
    <<[key |-> "json",
       parts |-> << <<Value("FieldName")>>,
                    <<Text(<<"o", "m", "i", "t", "e", "m", "p", "t", "y">>)>> >>]>>

RenderSegment(seg, n) ==
    IF seg.var = "FieldName" THEN (IF n.FieldName # <<>> THEN n.FieldName ELSE n.OriginalName)
    ELSE IF seg.var = "Type" THEN n.Name
    ELSE seg.text

\* text/template on one part of a tag: the result is one text.
Render(part, n) ==
    <<Text(Flatten([i \in 1..Len(part) |-> RenderSegment(part[i], n)]))>>

HasTag(tags, key) == \E i \in 1..Len(tags) : tags[i].key = key

\* The tags of the options that the node does not have, then the node's own,
\* all rendered.
ActualTags(tags, n) ==
    LET all == SelectSeq(tags, LAMBDA t : ~HasTag(n.Tags, t.key)) \o n.Tags
    IN [i \in 1..Len(all) |->
          [all[i] EXCEPT !.parts = [j \in 1..Len(@) |-> Render(@[j], n)]]]

\* The walker: st.refs collects the names of the named nodes when collect.
AddTagsVisit(st, path, tags, collect) ==
    LET id == path[Len(path)]
        n == st.h[id]
    IN IF Len(tags) = 0 THEN [st EXCEPT !.err = "should stop"]
       ELSE [st EXCEPT !.h = [@ EXCEPT ![id] = [n EXCEPT !.Tags = ActualTags(tags, n)]],
                       !.refs = IF collect /\ n.Name # <<>> THEN Append(@, n.Name) ELSE @]

RECURSIVE AddTagsWalk(_, _, _, _)
AddTagsWalk(st, walk, tags, collect) ==
    IF walk = <<>> \/ st.err # "" THEN st
    ELSE AddTagsWalk(AddTagsVisit(st, Head(walk), tags, collect), Tail(walk), tags, collect)

\* The registry entries that have one of the collected names, per name.
Referenced(h, ss, refs) ==
    Flatten([i \in 1..Len(refs) |-> SelectSeq(ss, LAMBDA s : h[s].Name = refs[i])])

RECURSIVE AddTagsRoots(_, _, _, _, _, _)
AddTagsRoots(st, roots, ss, tags, collect, rev) ==
    IF roots = <<>> \/ st.err # "" THEN st
    ELSE LET w == AddTagsWalk([st EXCEPT !.refs = <<>>],
                              Walk(st.h, Head(roots), TRUE, rev), tags, collect)
             r == IF collect
                  THEN AddTagsRoots(w, Referenced(w.h, ss, w.refs), ss, tags, FALSE, rev)
                  ELSE w
         IN AddTagsRoots(r, Tail(roots), ss, tags, collect, rev)

\* The registry, then the parameters and responses of every operation and of
\* the operations of its callbacks, each followed by the registry entries it
\* names.
AddTagsOf(h, ss, ps, tags, rev) ==
    LET st0 == [h |-> h, err |-> "", refs |-> <<>>]
        st1 == AddTagsRoots(st0, ss, ss, tags, FALSE, rev)
    IN AddTagsRoots(st1, RootsWithCallbacks(ps), ss, tags, TRUE, rev)

(***************************************************************************)
(* Default.AddPathComments.                                                *)
(***************************************************************************)
\* The content type as it is put into a comment: nothing when there is none.
ContentTypeText(prefix, contentType) ==
    IF contentType # <<>> THEN <<prefix, contentType>> ELSE <<>>

ParameterComment(param) ==
    Sprintf("    \"%v\" in %v%v.",
            <<param.Name, param.Type, ContentTypeText(" with content-type ", param.ContentType)>>)

ResponseComment(h, res) ==
    Sprintf("    \"%v\" (%v)%v.",
            <<IF res.Schema # 0 /\ h[res.Schema].Name # <<>> THEN h[res.Schema].Name
              ELSE res.Name, res.Code,
              ContentTypeText(": with content-type ", res.ContentType)>>)

OperationComments(h, o, p) ==
    <<Sprintf("%v is the \"%v\" operation for path \"%v\".", <<o.Name, o.Method, p.PathString>>)>>
    \o (IF Len(o.Parameters) > 0
        THEN <<Sprintf("Parameters: ", <<>>)>> \o MapSeq(o.Parameters, ParameterComment)
        ELSE <<>>)
    \o (IF Len(o.Responses) > 0
        THEN <<Sprintf("Responses: ", <<>>)>>
             \o [k \in 1..Len(o.Responses) |-> ResponseComment(h, o.Responses[k])]
        ELSE <<>>)

AddPathCommentsOf(h, ps) ==
    [i \in 1..Len(ps) |->
        [ps[i] EXCEPT !.Operations = [j \in 1..Len(@) |->
            [@[j] EXCEPT !.Comments = @ \o OperationComments(h, ps[i].Operations[j], ps[i])]]]]

(***************************************************************************)
(* pkg/util: the two styles of path parameters.                            *)
(***************************************************************************)
IsAlnum(c) == IsLetter(c) \/ IsDigit(c)

\* The first of the places `stops` of s from the second character on,
\* Len(s) + 1 if there is none.
FirstAt(s, stops) ==
    LET from2 == {i \in stops : i >= 2}
    IN IF from2 = {} THEN Len(s) + 1 ELSE CHOOSE i \in from2 : \A j \in from2 : i <= j

\* regexp {([^}]+)} replaced by :$1, leftmost match first.
RECURSIVE ParamStyleToColon(_)
ParamStyleToColon(path) ==
    IF path = <<>> THEN <<>>
    ELSE LET close == FirstAt(path, {i \in 1..Len(path) : path[i] = "}"})
         IN IF Head(path) = "{" /\ close >= 3 /\ close <= Len(path)
            THEN <<":">> \o SubSeq(path, 2, close - 1)
                    \o ParamStyleToColon(SubSeq(path, close + 1, Len(path)))
            ELSE <<Head(path)>> \o ParamStyleToColon(Tail(path))

\* regexp :([A-Za-z0-9]+) replaced by {$1}, leftmost and longest match first.
RECURSIVE ParamStyleToBraces(_)
ParamStyleToBraces(path) ==
    IF path = <<>> THEN <<>>
    ELSE LET end == FirstAt(path, {i \in 1..Len(path) : ~IsAlnum(path[i])})
         IN IF Head(path) = ":" /\ end >= 3
            THEN <<"{">> \o SubSeq(path, 2, end - 1) \o <<"}">>
                    \o ParamStyleToBraces(SubSeq(path, end, Len(path)))
            ELSE <<Head(path)>> \o ParamStyleToBraces(Tail(path))

(***************************************************************************)
(* The documents: bounded families of raw inputs.                          *)
(***************************************************************************)
\* The longest chain of components that refer to one another in a circle.
MaxCycle == 3

nA == <<"A">>
nB == <<"B">>
nFoo == <<"F", "o", "o">>
nBar == <<"B", "a", "r">>
nTime == <<"t", "i", "m", "e", ".", "T", "i", "m", "e">>
nRaw == <<"R", "a", "w">>
pId == <<"i", "d">>
pName == <<"n", "a", "m", "e">>
pNext == <<"n", "e", "x", "t">>
pItem == <<"i", "t", "e", "m">>
code200 == <<"2", "0", "0">>

Prop(name, sref) == [name |-> name, schema |-> sref]
Component(key, sref) == [key |-> key, ref |-> sref]
Document(components, ps) == [components |-> components, paths |-> ps]
RawPath(url, item) == [url |-> url, item |-> item]
Method(method, op) == [method |-> method, op |-> op]

IdObject == Obj(<<Prop(pId, Inline(IntBody))>>, {pId})
NameObject == Obj(<<Prop(pName, Inline(StrBody))>>, {})
\* { id: integer, name: string }
IdNameObject == Obj(<<Prop(pId, Inline(IntBody)), Prop(pName, Inline(StrBody))>>, {pId})

\* One operation with the given parameters and one response of the given
\* schema (none when the reference is nil).
SimpleOp(params, res) ==
    RawOp(<<>>, params, <<>>,
          <<RawResponse(code200, NoName, IF res.kind = "nil" THEN <<>> ELSE <<Media(<<"j", "s", "o", "n">>, res)>>)>>,
          <<>>)

Query(name, sref) == RawParam(name, "query", sref)

\* Family 1: MaxCycle or fewer components in a circle, each referring to the
\* next through a property, its items, an allOf member, its additional
\* properties next to a property, or its additional properties alone (a map
\* of itself); a parameter refers to the first.
Links == {"property", "items", "member", "additional", "map"}

ChainKey(i) == <<"C">> \o Itoa(i)

ChainBody(link, next) ==
    IF link = "property" THEN Obj(<<Prop(pNext, Ref(next))>>, {})
    ELSE IF link = "items" THEN Arr(Ref(next))
    ELSE IF link = "member" THEN AllOfBody(<<Ref(next), Inline(IdObject)>>)
    ELSE IF link = "additional" THEN WithAP(IdObject, Ref(next))
    ELSE WithAP(Obj(<<>>, {}), Ref(next))

ChainDoc(n, link) ==
    Document([i \in 1..n |-> Component(ChainKey(i), Inline(ChainBody(link, ChainKey((i % n) + 1))))],
             <<RawPath(<<"/", "c">>, RawItem(NoName,
                 <<Method(<<"G", "E", "T">>, SimpleOp(<<Query(pId, Ref(ChainKey(1)))>>, NilRef))>>, <<>>))>>)

ChainDocs == {ChainDoc(n, link) : n \in 1..MaxCycle, link \in Links}

\* Family 2: a component A of every shape with a component B, in either
\* iteration order; a parameter refers to A and a response to B.
Created(name) == Ext(name, "true", FALSE)
External(name) == Ext(name, "false", FALSE)
Typed(name) == Ext(name, "nil", FALSE)

TwoFragments == AllOfBody(<<Inline(IdObject), Inline(NameObject)>>)
NestedFragments == AllOfBody(<<Inline(TwoFragments), Inline(NameObject)>>)
NestedCreated ==
    Obj(<<Prop(pItem, Inline(WithExt(
            Obj(<<Prop(pNext, Inline(WithExt(IdObject, Created(nBar))))>>, {}),
            Created(nFoo))))>>, {})

BodiesA ==
    {IdNameObject, TwoFragments, NestedFragments,
     AllOfBody(<<Ref(nB), Inline(IdObject)>>),
     Open(Obj(<<>>, {})), WithAP(Obj(<<>>, {}), Inline(IntBody)), Open(IdObject),
     NestedCreated,
     WithExt(IdObject, Created(nB)), WithExt(IdObject, External(nTime)),
     WithExt(IdObject, Ext(nRaw, "false", TRUE)),
     AllOfBody(<<Inline(WithExt(StrBody, External(nTime))), Inline(IdObject)>>),
     WithExt(TwoFragments, Ext(<<>>, "false", FALSE)),
     WithExt(IdObject, BadExt),
     Obj(<<Prop(pItem, Inline(WithExt(IdObject, BadExt)))>>, {}),
     [Body EXCEPT !.Type = "weird"], Arr(NilRef), Arr(Inline(StrBody)),
     AnyOfBody(<<Inline(IdObject), Inline(StrBody)>>),
     OneOfBody(<<Ref(nB), Inline(StrBody)>>),
     [StrBody EXCEPT !.Format = "byte"], Body}

BodiesB ==
    {NameObject, WithExt(NameObject, External(nTime)), WithExt(NameObject, Created(nFoo)),
     TwoFragments}

SchemaDoc(a, b, swap) ==
    Document(IF swap THEN <<Component(nB, Inline(b)), Component(nA, Inline(a))>>
             ELSE <<Component(nA, Inline(a)), Component(nB, Inline(b))>>,
             <<RawPath(<<"/", "a">>, RawItem(NoName,
                 <<Method(<<"G", "E", "T">>, SimpleOp(<<Query(pId, Ref(nA))>>, Ref(nB)))>>, <<>>))>>)

SchemaDocs == {SchemaDoc(a, b, swap) : a \in BodiesA, b \in BodiesB, swap \in BOOLEAN}

\* Family 3: two parameters of every pair of schemas, in one operation, in
\* two operations, or one on the path and one in the first of its two
\* operations; a component A, alone, with a component B of the Go type A,
\* or A and B both of the external type time.Time.
ParamSchemas ==
    {Ref(nA), Ref(nB), Unresolved(nA),
     Inline(WithExt(IdObject, Created(nFoo))), Inline(WithExt(NameObject, Created(nA))),
     Inline(WithExt(StrBody, External(nTime))),
     Inline(WithExt(TwoFragments, Ext(<<>>, "true", FALSE))),
     Inline(Open(Obj(<<>>, {})))}

Placements == {"operation", "operations", "path"}

ParamComponents ==
    {<<Component(nA, Inline(IdObject))>>,
     <<Component(nA, Inline(IdObject)), Component(nB, Inline(WithExt(NameObject, Typed(nA))))>>,
     <<Component(nA, Inline(WithExt(StrBody, External(nTime)))),
       Component(nB, Inline(WithExt(StrBody, External(nTime))))>>}

ParamItem(s1, s2, placement) ==
    IF placement = "operation"
    THEN RawItem(NoName, <<Method(<<"G", "E", "T">>, SimpleOp(<<Query(pId, s1), Query(pName, s2)>>, NilRef))>>, <<>>)
    ELSE IF placement = "operations"
    THEN RawItem(NoName, <<Method(<<"G", "E", "T">>, SimpleOp(<<Query(pId, s1)>>, NilRef)),
                           Method(<<"P", "O", "S", "T">>, SimpleOp(<<Query(pName, s2)>>, NilRef))>>, <<>>)
    ELSE RawItem(NoName, <<Method(<<"G", "E", "T">>, SimpleOp(<<Query(pName, s2)>>, NilRef)),
                           Method(<<"P", "O", "S", "T">>, SimpleOp(<<>>, NilRef))>>,
                 <<RawParam(pId, "path", s1)>>)

ParamDoc(cs, s1, s2, placement) ==
    Document(cs, <<RawPath(<<"/", "p", "/", "{", "i", "d", "}">>, ParamItem(s1, s2, placement))>>)

RefersTo(sref, cs) ==
    sref.kind # "ref" \/ \E i \in 1..Len(cs) : cs[i].key = sref.Ref

ParamDocsOf(cs) ==
    {ParamDoc(cs, s1, s2, placement) :
        s1 \in {s \in ParamSchemas : RefersTo(s, cs)},
        s2 \in {s \in ParamSchemas : RefersTo(s, cs)},
        placement \in Placements}

ParamDocs == UNION {ParamDocsOf(cs) : cs \in ParamComponents}

\* Family 4: one path of every URL, name, operation id, response name and
\* callback; the response is an unnamed object { id, name } to be created.
PetsProfile == <<"/", "p", "e", "t", "s", "/", "{", "i", "d", "}", "/", "p", "r", "o", "f", "i", "l", "e">>
MyPets == <<"/", "m", "y", "-", "p", "e", "t", "s", "/", "{", "p", "e", "t", "_", "i", "d", "}">>

Urls == {<<"/", "i", "t", "e", "m", "s", "/", "{", "i", "d", "}">>, <<"/">>, <<"/", "a", "/", "b">>,
         PetsProfile, MyPets}
PathNames == {NoName, NameExt(<<"P", "e", "t", "s">>)}
OperationIds == {<<>>, <<"g", "e", "t", "I", "t", "e", "m">>}
ResponseNames == {NoName, NameExt(<<"o", "k">>), NameExt(<<"-">>)}
CallbackIds == {<<>>, <<"c", "b", "O", "p">>}

UnnamedCreated == Inline(WithExt(IdNameObject, Ext(<<>>, "true", FALSE)))

Callback(id) ==
    [event |-> <<"o", "n", "E", "v", "e", "n", "t">>,
     paths |-> <<RawPath(<<"{", "$", "r", "e", "q", "u", "e", "s", "t", ".", "b", "o", "d", "y", "#", "/", "u", "r", "l", "}", "/", "c", "b">>, RawItem(NoName,
                   <<Method(<<"P", "O", "S", "T">>, RawOp(id, <<>>, <<>>,
                                        <<RawResponse(code200, NoName, <<>>)>>, <<>>))>>,
                   <<>>))>>]

NamingDoc(url, name, id, res, cbs) ==
    Document(<<>>,
             <<RawPath(url, RawItem(name,
                 <<Method(<<"G", "E", "T">>, RawOp(id, <<>>, <<>>,
                                     <<RawResponse(code200, res, <<Media(<<"j", "s", "o", "n">>, UnnamedCreated)>>)>>,
                                     cbs))>>,
                 <<>>))>>)

NamingDocs ==
    {NamingDoc(url, name, id, res, cbs) :
        url \in Urls, name \in PathNames, id \in OperationIds, res \in ResponseNames,
        cbs \in {<<>>} \cup {<<Callback(c)>> : c \in CallbackIds}}

\* The unnamed object reached only through the response of the GET
\* operation of /items/{id}.
ItemsDoc == NamingDoc(<<"/", "i", "t", "e", "m", "s", "/", "{", "i", "d", "}">>, NoName, <<>>, NoName, <<>>)

\* Family 5: one schema that cannot be resolved (a nil or empty reference or
\* an unknown type, at the top or below it) at every place of a document
\* that holds a schema.
weird == [Body EXCEPT !.Type = "weird"]

FatalSchemas ==
    {EmptyRef, Inline(weird), Inline(Arr(NilRef)),
     Inline(Obj(<<Prop(pId, Inline(IntBody)), Prop(pItem, Inline(Arr(Inline(weird))))>>, {})),
     Inline(AllOfBody(<<Inline(IdObject), EmptyRef>>)),
     Inline(WithAP(IdObject, Inline(OneOfBody(<<Inline(weird)>>)))),
     Inline(WithExt(Arr(NilRef), External(nTime))),
     Inline(AllOfBody(<<Inline(WithExt(Arr(NilRef), External(nTime)))>>))}

Places == {"component", "parameter", "pathParameter", "content", "body", "response",
           "callbackBody", "callbackResponse"}

Json == <<"j", "s", "o", "n">>

PlacedOp(s, place, cbs) ==
    RawOp(<<>>,
          IF place = "parameter" THEN <<Query(pId, s)>>
          ELSE IF place = "content" THEN <<[Query(pId, NilRef) EXCEPT !.content = <<Media(Json, s)>>]>>
          ELSE <<>>,
          IF place = "body" THEN <<Media(Json, s)>> ELSE <<>>,
          <<RawResponse(code200, NoName,
                        IF place = "response" THEN <<Media(Json, s)>> ELSE <<>>)>>,
          cbs)

PlacedCallback(s, place) ==
    [event |-> <<"o", "n", "E", "v", "e", "n", "t">>,
     paths |-> <<RawPath(<<"/", "c", "b">>, RawItem(NoName,
                   <<Method(<<"P", "O", "S", "T">>,
                            PlacedOp(s, IF place = "callbackBody" THEN "body" ELSE "response", <<>>))>>,
                   <<>>))>>]

FatalDoc(s, place) ==
    Document(IF place = "component"
             THEN <<Component(nA, Inline(IdObject)), Component(nB, s)>> ELSE <<>>,
             <<RawPath(<<"/", "f">>, RawItem(NoName,
                 <<Method(<<"G", "E", "T">>,
                          PlacedOp(s, place,
                                   IF place \in {"callbackBody", "callbackResponse"}
                                   THEN <<PlacedCallback(s, place)>> ELSE <<>>))>>,
                 IF place = "pathParameter" THEN <<RawParam(pId, "path", s)>> ELSE <<>>))>>)

FatalDocs == {FatalDoc(s, place) : s \in FatalSchemas, place \in Places}

\* Family 6: two paths of two operations, each with two parameters and two
\* responses, in either order each; the paths unnamed, named in the two
\* cases of letters, or named alike.
Swapped(pair, swap) == IF swap THEN <<pair[2], pair[1]>> ELSE pair

nAnt == <<"a", "n", "t">>
nZoo == <<"Z", "o", "o">>
code404 == <<"4", "0", "4">>

OrderNames == {<<NoName, NoName>>, <<NameExt(nAnt), NameExt(nZoo)>>, <<NameExt(nZoo), NameExt(nZoo)>>}

OrderOp(swapParams, swapResponses) ==
    RawOp(<<>>,
          Swapped(<<Query(pId, Inline(StrBody)), Query(pName, Inline(StrBody))>>, swapParams),
          <<>>,
          Swapped(<<RawResponse(code200, NoName, <<>>), RawResponse(code404, NoName, <<>>)>>,
                  swapResponses),
          <<>>)

OrderItem(name, swapOps, swapParams, swapResponses) ==
    RawItem(name,
            Swapped(<<Method(<<"G", "E", "T">>, OrderOp(swapParams, swapResponses)),
                      Method(<<"P", "O", "S", "T">>, OrderOp(swapParams, swapResponses))>>, swapOps),
            <<>>)

OrderDoc(names, swapPaths, swapOps, swapParams, swapResponses) ==
    Document(<<>>,
             Swapped(<<RawPath(<<"/", "a">>, OrderItem(names[1], swapOps, swapParams, swapResponses)),
                       RawPath(<<"/", "b">>, OrderItem(names[2], swapOps, swapParams, swapResponses))>>,
                     swapPaths))

OrderDocs ==
    {OrderDoc(names, swapPaths, swapOps, swapParams, swapResponses) :
        names \in OrderNames, swapPaths \in BOOLEAN, swapOps \in BOOLEAN,
        swapParams \in BOOLEAN, swapResponses \in BOOLEAN}

\* Family 7: an allOf of two unnamed members next to a component that has
\* the name of a fragment: the allOf a component A with a component
\* AFragment0, or the schema of a parameter, unnamed and to be created, with
\* a component UnnamedFragment0; in either order of the components.
nAFragment0 == nA \o Fragment \o <<"0">>
nUnnamedFragment0 == UnnamedFragment \o <<"0">>

FragmentDoc(key, param, swap) ==
    Document(Swapped(<<Component(nA, Inline(TwoFragments)), Component(key, Inline(NameObject))>>, swap),
             <<RawPath(<<"/", "a">>, RawItem(NoName,
                 <<Method(<<"G", "E", "T">>, SimpleOp(<<Query(pId, param)>>, NilRef))>>, <<>>))>>)

FragmentDocs ==
    {FragmentDoc(key, param, swap) :
        key \in {nAFragment0, nUnnamedFragment0},
        param \in {Inline(StrBody), Inline(WithExt(TwoFragments, Ext(<<>>, "true", FALSE)))},
        swap \in BOOLEAN}

\* Family 8: a component A that is an object of one property of every
\* shape, required or not, nullable or not.
PropertyShapes ==
    {IntBody, IdObject, TwoFragments, Arr(Inline(StrBody)), Body,
     AnyOfBody(<<Inline(IdObject), Inline(StrBody)>>),
     OneOfBody(<<Inline(IdObject), Inline(StrBody)>>),
     Open(Obj(<<>>, {}))}

PropertyDoc(shape, nullable, required) ==
    Document(<<Component(nA, Inline(Obj(<<Prop(pId, Inline(IntBody)),
                                          Prop(pItem, Inline([shape EXCEPT !.Nullable = nullable]))>>,
                                        IF required THEN {pId, pItem} ELSE {pId})))>>,
             <<RawPath(<<"/", "a">>, RawItem(NoName,
                 <<Method(<<"G", "E", "T">>, SimpleOp(<<>>, Ref(nA)))>>, <<>>))>>)

PropertyDocs ==
    {PropertyDoc(shape, nullable, required) :
        shape \in PropertyShapes, nullable \in BOOLEAN, required \in BOOLEAN}

\* Family 9: one operation with a callback of two paths, in either order,
\* each with an operation of two parameters and two responses, in either
\* order.
CallbackDoc(swapPaths, swapParams, swapResponses) ==
    Document(<<>>,
             <<RawPath(<<"/", "a">>, RawItem(NoName,
                 <<Method(<<"G", "E", "T">>,
                          RawOp(<<>>, <<>>, <<>>, <<RawResponse(code200, NoName, <<>>)>>,
                                <<[event |-> <<"o", "n", "E", "v", "e", "n", "t">>,
                                   paths |-> Swapped(
                                      <<RawPath(<<"/", "a">>, RawItem(NoName,
                                            <<Method(<<"P", "O", "S", "T">>,
                                                     OrderOp(swapParams, swapResponses))>>, <<>>)),
                                        RawPath(<<"/", "z">>, RawItem(NoName,
                                            <<Method(<<"P", "O", "S", "T">>,
                                                     OrderOp(swapParams, swapResponses))>>, <<>>))>>,
                                      swapPaths)]>>))>>,
                 <<>>))>>)

CallbackDocs ==
    {CallbackDoc(swapPaths, swapParams, swapResponses) :
        swapPaths \in BOOLEAN, swapParams \in BOOLEAN, swapResponses \in BOOLEAN}

\* Family 10: one schema that SimplifyInlineSchemas is about (an anyOf, a
\* oneOf or an object with properties and additional properties, unnamed or
\* named) at every place of a document that holds a schema.
InlineSchemas ==
    {Inline(AnyOfBody(<<Inline(IdObject), Inline(StrBody)>>)),
     Inline(OneOfBody(<<Inline(IdObject), Inline(StrBody)>>)),
     Inline(Open(IdObject)),
     Inline(WithExt(AnyOfBody(<<Inline(IdObject), Inline(StrBody)>>), Typed(nFoo))),
     Inline(WithExt(Open(IdObject), Typed(nFoo))),
     Inline(Arr(Inline(Open(IdObject))))}

InlineDocs == {FatalDoc(s, place) : s \in InlineSchemas, place \in Places}

\* Family 11: one operation with a request body of two content types, in
\* either order: two parameters named body.
Xml == <<"x", "m", "l">>

BodyDoc(swap) ==
    Document(<<>>,
             <<RawPath(<<"/", "a">>, RawItem(NoName,
                 <<Method(<<"P", "O", "S", "T">>,
                          RawOp(<<>>, <<Query(pId, Inline(StrBody))>>,
                                Swapped(<<Media(Json, Inline(StrBody)), Media(Xml, Inline(IntBody))>>, swap),
                                <<RawResponse(code200, NoName, <<>>)>>, <<>>))>>,
                 <<>>))>>)

BodyDocs == {BodyDoc(swap) : swap \in BOOLEAN}

Docs ==
    ChainDocs \cup SchemaDocs \cup ParamDocs \cup NamingDocs \cup FatalDocs \cup OrderDocs
        \cup FragmentDocs \cup PropertyDocs \cup CallbackDocs \cup InlineDocs \cup BodyDocs

(***************************************************************************)
(* The pipeline: repose parses the document and runs the passes of         *)
(* Default.Transform in order; an error ends the run.                      *)
(***************************************************************************)
Snapshot == [heap |-> heap, schemas |-> schemas, paths |-> paths]

\* The tag options of the transformer: the default, or none.
TagOptions == {DefaultTags, <<>>}

Init ==
    /\ doc \in Docs
    /\ heap = <<>>
    /\ schemas = <<>>
    /\ paths = <<>>
    /\ err = ""
    /\ last = "init"
    /\ pre = [heap |-> <<>>, schemas |-> <<>>, paths |-> <<>>]
    /\ cycles = {}
    /\ reruns = 0
    /\ template = <<>>
    /\ colon = <<>>
    /\ braces = <<>>

\* OpenAPI3.Parse.
Parse ==
    /\ last = "init"
    /\ LET r == ParseDoc(doc)
       IN /\ heap' = r.heap
          /\ schemas' = r.schemas
          /\ paths' = r.paths
          /\ err' = r.err
          /\ cycles' = r.cyc
    /\ last' = "Parse"
    /\ pre' = Snapshot
    /\ UNCHANGED <<doc, reruns>>
    /\ UNCHANGED utilVars

\* The passes of Default.Transform in the order it calls them.
PassesAsStated ==
    <<"ExtractSchemas", "ExtractAllOfs", "GeneratePathNames", "GenerateOperationNames",
      "GenerateResponseNames", "AddTags", "SimplifyInlineSchemas", "OrderResources",
      "AddPathComments">>

Passes ==
    <<"AddTags", "ExtractSchemas", "ExtractAllOfs", "GeneratePathNames",
      "GenerateOperationNames", "GenerateResponseNames", "SimplifyInlineSchemas",
      "OrderResources", "AddPathComments">>

\* What has returned when a pass is called: the pass before it, Parse for
\* the first.
Before(pass) ==
    LET i == CHOOSE i \in 1..Len(Passes) : Passes[i] = pass
    IN IF i = 1 THEN "Parse" ELSE Passes[i - 1]

\* A pass runs after the pass before it, or again right after itself.
Runs(pass, before) ==
    /\ err = ""
    /\ \/ last = before /\ reruns' = 0 /\ pre' = Snapshot
       \/ last = pass /\ reruns < MaxReruns /\ reruns' = reruns + 1 /\ pre' = pre
    /\ last' = pass

Once(pass, before) ==
    /\ err = ""
    /\ last = before
    /\ last' = pass
    /\ reruns' = 0
    /\ pre' = Snapshot

AddTags ==
    /\ Once("AddTags", Before("AddTags"))
    /\ \E tags \in TagOptions, rev \in SUBSET MapNodes(heap) :
          LET r == AddTagsOf(heap, schemas, paths, tags, rev)
          IN heap' = r.h /\ err' = r.err
    /\ UNCHANGED <<doc, schemas, paths, cycles>>
    /\ UNCHANGED utilVars

ExtractSchemas ==
    /\ Runs("ExtractSchemas", Before("ExtractSchemas"))
    /\ \E rev \in SUBSET MapNodes(heap) :
          LET r == ExtractSchemasOf(heap, schemas, paths, rev)
          IN heap' = r.h /\ schemas' = r.schemas /\ err' = r.err
    /\ UNCHANGED <<doc, paths, cycles>>
    /\ UNCHANGED utilVars

ExtractAllOfs ==
    /\ Runs("ExtractAllOfs", Before("ExtractAllOfs"))
    /\ \E rev \in SUBSET MapNodes(heap) :
          LET r == ExtractAllOfsOf(heap, schemas, paths, rev)
          IN heap' = r.h /\ schemas' = r.schemas /\ err' = r.err
    /\ UNCHANGED <<doc, paths, cycles>>
    /\ UNCHANGED utilVars

GeneratePathNames ==
    /\ Once("GeneratePathNames", Before("GeneratePathNames"))
    /\ paths' = GeneratePathNamesOf(paths)
    /\ UNCHANGED <<doc, heap, schemas, err, cycles>>
    /\ UNCHANGED utilVars

GenerateOperationNames ==
    /\ Once("GenerateOperationNames", Before("GenerateOperationNames"))
    /\ LET r == GenerateOperationNamesOf(paths)
       IN paths' = r.paths /\ err' = r.err
    /\ UNCHANGED <<doc, heap, schemas, cycles>>
    /\ UNCHANGED utilVars

GenerateResponseNames ==
    /\ Once("GenerateResponseNames", Before("GenerateResponseNames"))
    /\ LET r == GenerateResponseNamesOf(paths)
       IN paths' = r.paths /\ err' = r.err
    /\ UNCHANGED <<doc, heap, schemas, cycles>>
    /\ UNCHANGED utilVars

SimplifyInlineSchemas ==
    /\ Once("SimplifyInlineSchemas", Before("SimplifyInlineSchemas"))
    /\ \E rev \in SUBSET MapNodes(heap) :
          LET r == SimplifyInlineSchemasOf(heap, schemas, paths, rev)
          IN heap' = r.h /\ err' = r.err
    /\ UNCHANGED <<doc, schemas, paths, cycles>>
    /\ UNCHANGED utilVars

OrderResources ==
    /\ Once("OrderResources", Before("OrderResources"))
    /\ \E flip \in BOOLEAN : paths' = OrderResourcesOf(paths, flip)
    /\ UNCHANGED <<doc, heap, schemas, err, cycles>>
    /\ UNCHANGED utilVars

AddPathComments ==
    /\ Once("AddPathComments", Before("AddPathComments"))
    /\ paths' = AddPathCommentsOf(heap, paths)
    /\ UNCHANGED <<doc, heap, schemas, err, cycles>>
    /\ UNCHANGED utilVars

Next ==
    \/ Parse
    \/ AddTags
    \/ ExtractSchemas
    \/ ExtractAllOfs
    \/ GeneratePathNames
    \/ GenerateOperationNames
    \/ GenerateResponseNames
    \/ SimplifyInlineSchemas
    \/ OrderResources
    \/ AddPathComments

Spec == Init /\ [][Next]_vars

(***************************************************************************)
(* The conversions of pkg/util on path templates: a template is converted  *)
(* to the colon style and the result back to the braces style.             *)
(***************************************************************************)
\* The longest template, in segments.
MaxSegments == 3

Segments ==
    {<<"u", "s", "e", "r", "s">>, <<"v", "1">>, <<"{", "i", "d", "}">>,
     <<"{", "p", "e", "t", "I", "d", "}">>, <<"{", "u", "s", "e", "r", "_", "i", "d", "}">>}

RECURSIVE TemplatesOf(_)
TemplatesOf(n) ==
    IF n = 0 THEN {<<>>}
    ELSE {<<"/">> \o seg \o rest : seg \in Segments, rest \in TemplatesOf(n - 1)}

Templates == UNION {TemplatesOf(n) : n \in 1..MaxSegments}

UtilInit ==
    /\ template \in Templates
    /\ colon = <<>>
    /\ braces = <<>>
    /\ doc = Document(<<>>, <<>>)
    /\ heap = <<>>
    /\ schemas = <<>>
    /\ paths = <<>>
    /\ err = ""
    /\ last = "init"
    /\ pre = [heap |-> <<>>, schemas |-> <<>>, paths |-> <<>>]
    /\ cycles = {}
    /\ reruns = 0

ToColon ==
    /\ last = "init"
    /\ colon' = ParamStyleToColon(template)
    /\ last' = "ParamStyleToColon"
    /\ UNCHANGED <<doc, heap, schemas, paths, err, pre, cycles, reruns, template, braces>>

ToBraces ==
    /\ last = "ParamStyleToColon"
    /\ braces' = ParamStyleToBraces(colon)
    /\ last' = "ParamStyleToBraces"
    /\ UNCHANGED <<doc, heap, schemas, paths, err, pre, cycles, reruns, template, colon>>

UtilNext == ToColon \/ ToBraces

UtilSpec == UtilInit /\ [][UtilNext]_vars

(***************************************************************************)
(* Properties.                                                             *)
(***************************************************************************)
Last(p) == p[Len(p)]

Max(a, b) == IF a > b THEN a ELSE b

\* The schema slots of the Spec: the registry, then the parameters and
\* responses of the operations and of the operations of their callbacks.
SpecRoots(ss, ps) == SelectSeq(ss \o RootsWithCallbacks(ps), LAMBDA r : r # 0)

\* Every path from a root of the Spec to a node below it.
SpecWalks(h, ss, ps) ==
    LET roots == SpecRoots(ss, ps)
    IN Flatten([i \in 1..Len(roots) |-> Walk(h, roots[i], FALSE, {})])

\* How many registry entries have the name.
Entries(h, ss, name) == Cardinality({i \in 1..Len(ss) : h[ss[i]].Name = name})

\* C1: ParseSchema terminates on every graph in which a descendant refers to
\* an ancestor by name (the recursion budget is never reached), and every
\* node returned in place of a further expansion carries a non-empty name
\* that is the name of one of its ancestors in the tree.
CycleTermination ==
    /\ err # "diverges"
    /\ last = "Parse" =>
          LET w == SpecWalks(heap, schemas, paths)
          IN \A i \in 1..Len(w) :
                Last(w[i]) \in cycles =>
                    /\ heap[Last(w[i])].Name # <<>>
                    /\ \E k \in 1..(Len(w[i]) - 1) :
                          heap[w[i][k]].Name = heap[Last(w[i])].Name

\* A parsed tree in which the repeated ancestor is more than MaxCycle - 1
\* levels above the node that repeats it.
CycleTerminationWitness ==
    /\ last = "Parse"
    /\ err = ""
    /\ LET w == SpecWalks(heap, schemas, paths)
       IN \E i \in 1..Len(w) : Last(w[i]) \in cycles /\ Len(w[i]) > MaxCycle

\* The schema nodes of the parameters of the operations.
ParameterRoots(ps) ==
    Range(Flatten([i \in 1..Len(ps) |->
              Flatten([j \in 1..Len(ps[i].Operations) |-> ParamRoots(ps[i].Operations[j])])]))
        \ {0}

\* The parameter nodes that had the name before ExtractSchemas ran.
SharedBy(name) == {a \in ParameterRoots(pre.paths) : pre.heap[a].Name = name}

\* The names that two different parameter nodes had before ExtractSchemas
\* ran, one of them to be created or the registry holding the name.
DedupNames ==
    {pre.heap[a].Name : a \in
        {a \in ParameterRoots(pre.paths) :
            /\ pre.heap[a].Name # <<>>
            /\ Cardinality(SharedBy(pre.heap[a].Name)) > 1
            /\ \/ \E b \in SharedBy(pre.heap[a].Name) : pre.heap[b].Create
               \/ Entries(pre.heap, pre.schemas, pre.heap[a].Name) > 0}}

\* The parameter nodes of the name no longer ask to be created and keep
\* the name.
References(name) == \A a \in SharedBy(name) : ~heap[a].Create /\ heap[a].Name = name

ExtractionIdempotent ==
    [][(last = "ExtractSchemas" /\ last' = "ExtractSchemas") =>
          /\ schemas' = schemas
          /\ Len(heap') = Len(heap)
          /\ \A i \in 1..Len(heap) : heap'[i].Create = heap[i].Create]_vars

\* ExtractSchemas has run twice on a Spec whose first run added entries.
ExtractionIdempotentWitness ==
    /\ last = "ExtractSchemas"
    /\ reruns = 1
    /\ Len(schemas) > Len(pre.schemas)
    /\ \E i \in 1..Len(heap) : pre.heap[i].Create /\ ~heap[i].Create

\* C4, as stated: after resolution and the extraction passes no two registry
\* entries to be created have the same name.
RegistryUnique ==
    last = "ExtractAllOfs" =>
        \A i, j \in 1..Len(schemas) :
            (i # j /\ heap[schemas[i]].Create /\ heap[schemas[j]].Create)
                => heap[schemas[i]].Name # heap[schemas[j]].Name

\* A node to be created that is an allOf of two members without a name.
TwoUnnamedMembers(h, id) ==
    /\ h[id].Variant = VariantAllOf
    /\ h[id].Create
    /\ Len(h[id].Children) = 2
    /\ \A k \in 1..2 : h[h[id].Children[k]].Name = <<>>

\* The allOf nodes to be created in the Spec.
CreatableAllOfs(h, ss, ps) ==
    LET w == SpecWalks(h, ss, ps)
    IN {Last(w[i]) : i \in 1..Len(w)}
          \cap {id \in 1..Len(h) : h[id].Variant = VariantAllOf /\ h[id].Create}

\* Before ExtractAllOfs ran, the Spec had allOf nodes to be created and each
\* had two members without a name.
FragmentCase ==
    /\ CreatableAllOfs(pre.heap, pre.schemas, pre.paths) # {}
    /\ \A id \in CreatableAllOfs(pre.heap, pre.schemas, pre.paths) :
          TwoUnnamedMembers(pre.heap, id)

\* The names of the registry entries from place n on are all different.
DistinctFrom(h, ss, n) ==
    \A i, j \in n..Len(ss) : i # j => h[ss[i]].Name # h[ss[j]].Name

\* The first run of ExtractAllOfs has added two registry entries for each
\* allOf node to be created, all of different names.
FragmentsAdded ==
    /\ Len(schemas) =
          Len(pre.schemas)
              + 2 * Cardinality(CreatableAllOfs(pre.heap, pre.schemas, pre.paths))
    /\ DistinctFrom(heap, schemas, Len(pre.schemas) + 1)

\* C5, as stated: on a Spec whose allOf nodes to be created have two
\* unnamed members, the first run of ExtractAllOfs adds two registry
\* entries for each, all of different names, and a run right after it
\* changes nothing.
FragmentExtraction ==
    [][(last = "ExtractAllOfs" /\ FragmentCase) =>
          /\ reruns = 0 => FragmentsAdded
          /\ last' = "ExtractAllOfs" => (heap' = heap /\ schemas' = schemas)]_vars

\* C5, the first run alone.
FragmentFirstRun == (last = "ExtractAllOfs" /\ reruns = 0 /\ FragmentCase) => FragmentsAdded

GetItemsWithIDResponse200 ==
    <<"G", "e", "t", "I", "t", "e", "m", "s", "W", "i", "t", "h", "I", "D",
      "R", "e", "s", "p", "o", "n", "s", "e", "2", "0", "0">>

\* The one response of the one operation of the one path.
TheResponse == paths[1].Operations[1].Responses[1]

\* C6, as stated: for the unnamed object { id, name } to be created that is
\* reached only through the response of the GET operation of /items/{id},
\* after the whole pipeline the registry has exactly one entry, it has a
\* name, and the schema of the response is a non-creatable node of that name.
ItemsExtracted ==
    (doc = ItemsDoc /\ last = "AddPathComments") =>
        /\ Len(schemas) = 1
        /\ heap[schemas[1]].Name # <<>>
        /\ ~heap[TheResponse.Schema].Create
        /\ heap[TheResponse.Schema].Name = heap[schemas[1]].Name

\* C6, amended: for that input the pipeline ends without error with an
\* empty registry; the schema of the response is still the unnamed struct to
\* be created, with its two fields, and the name made of the operation and
\* the code is the name of the Response.
ItemsStayInline ==
    (doc = ItemsDoc /\ last = "AddPathComments") =>
        /\ err = ""
        /\ schemas = <<>>
        /\ heap[TheResponse.Schema].Create
        /\ heap[TheResponse.Schema].Name = <<>>
        /\ heap[TheResponse.Schema].Variant = VariantStruct
        /\ Len(heap[TheResponse.Schema].Children) = 2
        /\ TheResponse.Name = GetItemsWithIDResponse200

\* The pipeline has ended for that input.
ItemsWitness == doc = ItemsDoc /\ last = "AddPathComments" /\ TheResponse.Schema # 0

\* The paths of the callbacks of the operations of the paths.
CallbackPaths(ps) ==
    Flatten([i \in 1..Len(ps) |->
        Flatten([j \in 1..Len(ps[i].Operations) |->
            Flatten([k \in 1..Len(ps[i].Operations[j].Callbacks) |->
                ps[i].Operations[j].Callbacks[k].paths])])])

\* The path, its operations and their responses have names.
PathNamed(p) ==
    /\ p.Name # <<>>
    /\ \A j \in 1..Len(p.Operations) :
          /\ p.Operations[j].Name # <<>>
          /\ \A k \in 1..Len(p.Operations[j].Responses) :
                p.Operations[j].Responses[k].Name # <<>>

\* C7, as stated: when Transform returns without error, every path, every
\* operation and every response has a name, those of the callbacks included.
AllNamed ==
    (last = "AddPathComments" /\ err = "") =>
        /\ \A i \in 1..Len(paths) : PathNamed(paths[i])
        /\ \A i \in 1..Len(CallbackPaths(paths)) : PathNamed(CallbackPaths(paths)[i])

\* C7 without the callbacks and the responses: the paths and their
\* operations have names.
TopLevelNamed ==
    (last = "AddPathComments" /\ err = "") =>
        \A i \in 1..Len(paths) :
            /\ paths[i].Name # <<>>
            /\ \A j \in 1..Len(paths[i].Operations) : paths[i].Operations[j].Name # <<>>

\* The nodes below the roots of the Spec.
Reachable(h, ss, ps) ==
    LET w == SpecWalks(h, ss, ps) IN {Last(w[i]) : i \in 1..Len(w)}

\* Every slot of the Spec that holds a node: the registry, the parameters and
\* responses, and the child and additional-properties slots of the nodes.
Holders(h, ss, ps) ==
    LET nodes == Reachable(h, ss, ps)
    IN SpecRoots(ss, ps)
          \o Flatten([id \in 1..Len(h) |-> IF id \in nodes THEN Slots(h[id]) ELSE <<>>])

\* C8, as stated: after Parse and after every pass no node is held by more
\* than one slot.
SingleOwnership ==
    last # "init" =>
        LET held == Holders(heap, schemas, paths)
        IN \A i, j \in 1..Len(held) : i # j => held[i] # held[j]

\* C8 for the trees alone: a node held by two slots of the schema nodes is
\* the value of a map, held by the additional properties as well.
SharedInTreesIsMapValue ==
    last # "init" =>
        LET nodes == Reachable(heap, schemas, paths)
        IN \A a, b \in nodes : \A i \in 1..Len(Slots(heap[a])), j \in 1..Len(Slots(heap[b])) :
              (<<a, i>> # <<b, j>> /\ Slots(heap[a])[i] = Slots(heap[b])[j])
                  => /\ a = b
                     /\ heap[a].Variant = VariantMap
                     /\ Slots(heap[a])[i] = heap[a].AdditionalProps

\* C9, as stated: Walk calls the walker once for every node below the root,
\* in either order and whatever the order of the fields.
WalkOnce ==
    last # "init" =>
        \A r \in Range(SpecRoots(schemas, paths)) : \A bottomUp \in BOOLEAN :
            LET w == Walk(heap, r, bottomUp, IF bottomUp THEN MapNodes(heap) ELSE {})
            IN \A i, j \in 1..Len(w) : i # j => Last(w[i]) # Last(w[j])

\* C9 for trees without a map: Walk calls the walker once for every node.
WalkOnceWithoutMaps ==
    (last # "init" /\ \A id \in 1..Len(heap) : heap[id].Variant # VariantMap) =>
        \A r \in Range(SpecRoots(schemas, paths)) : \A bottomUp \in BOOLEAN :
            LET w == Walk(heap, r, bottomUp, IF bottomUp THEN MapNodes(heap) ELSE {})
            IN \A i, j \in 1..Len(w) : i # j => Last(w[i]) # Last(w[j])

\* A raw schema with an extension that cannot be decoded, references not
\* followed.
RECURSIVE BadIn(_)
BadIn(sref) ==
    /\ sref.kind = "inline"
    /\ \/ sref.Value.Ext.state = "bad"
       \/ \E i \in 1..Len(sref.Value.Properties) : BadIn(sref.Value.Properties[i].schema)
       \/ \E i \in 1..Len(sref.Value.AllOf.items) : BadIn(sref.Value.AllOf.items[i])
       \/ \E i \in 1..Len(sref.Value.AnyOf.items) : BadIn(sref.Value.AnyOf.items[i])
       \/ \E i \in 1..Len(sref.Value.OneOf.items) : BadIn(sref.Value.OneOf.items[i])
       \/ BadIn(sref.Value.Items)
       \/ BadIn(sref.Value.AdditionalProperties)

\* A component of the document has an extension that cannot be decoded.
UndecodableOverride == \E i \in 1..Len(doc.components) : BadIn(doc.components[i].ref)

Missing == "schema is missing"
UnknownType == "unknown type"

RECURSIVE FatalIn(_, _)
FatalBelow(v, names) ==
    IF v.AllOf.has THEN UNION {FatalIn(m, names) : m \in Range(v.AllOf.items)}
    ELSE IF v.AnyOf.has THEN UNION {FatalIn(m, names) : m \in Range(v.AnyOf.items)}
    ELSE IF v.OneOf.has THEN UNION {FatalIn(m, names) : m \in Range(v.OneOf.items)}
    ELSE IF v.Type = "object"
    THEN UNION {FatalIn(q.schema, names) : q \in Range(v.Properties)}
            \cup (IF v.AdditionalProperties.kind = "nil" THEN {}
                  ELSE FatalIn(v.AdditionalProperties, names))
    ELSE IF v.Type = "array" THEN FatalIn(v.Items, names)
    ELSE IF v.Type \in {"", "string", "number", "integer", "boolean"} THEN {}
    ELSE {UnknownType}

FatalValue(v, name, names) ==
    IF v.Ext.state = "bad" THEN {}
    ELSE IF v.Ext.Create = "false" /\ name # <<>> THEN {}
    ELSE IF name # <<>> /\ name \in Range(names) THEN {}
    ELSE FatalBelow(v, Append(names, name))

FatalIn(sref, names) ==
    IF sref.kind \in {"nil", "empty"} THEN {Missing}
    ELSE IF sref.kind = "unresolved" THEN {}
    ELSE FatalValue(ValueOf(sref), SchemaName(sref, ValueOf(sref).Ext), names)

\* The raw schemas of the document that are resolved as roots: the components
\* that have a value, and the schemas that are there of the parameters, the
\* request bodies, the responses and the callbacks.
MediaSchemas(content) ==
    {content[i].schema : i \in 1..Len(content)} \ {NilRef}

ParameterSchemas(params) ==
    UNION {({params[i].schema} \ {NilRef}) \cup MediaSchemas(params[i].content) :
              i \in 1..Len(params)}

RECURSIVE ItemSchemas(_)
OperationSchemas(op) ==
    ParameterSchemas(op.parameters) \cup MediaSchemas(op.requestBody)
        \cup UNION {MediaSchemas(op.responses[i].content) : i \in 1..Len(op.responses)}
        \cup UNION {UNION {ItemSchemas(cbPath.item) : cbPath \in Range(cb.paths)} :
                       cb \in Range(op.callbacks)}

ItemSchemas(item) ==
    ParameterSchemas(item.parameters)
        \cup UNION {OperationSchemas(item.operations[i].op) : i \in 1..Len(item.operations)}

RawRoots(d) ==
    {d.components[i].ref : i \in {j \in 1..Len(d.components) : d.components[j].ref.kind \in {"ref", "inline"}}}
        \cup UNION {ItemSchemas(d.paths[i].item) : i \in 1..Len(d.paths)}

DocFatal(d) == UNION {FatalIn(r, <<>>) : r \in RawRoots(d)}

\* C11: when resolution meets a nil reference or an unknown type below any
\* root of the document, Parse returns an error and no Spec; the error is one
\* that the document holds, and after any error the Spec is empty.
FatalAborts ==
    last = "Parse" =>
        /\ err # "" => heap = <<>> /\ schemas = <<>> /\ paths = <<>>
        /\ DocFatal(doc) # {} => err # ""
        /\ err \in {Missing, UnknownType} => err \in DocFatal(doc)

\* An unknown type two levels below the response of a callback has ended
\* Parse.
FatalAbortsWitness ==
    /\ last = "Parse"
    /\ err = UnknownType
    /\ doc = FatalDoc(Inline(Obj(<<Prop(pId, Inline(IntBody)),
                                   Prop(pItem, Inline(Arr(Inline(weird))))>>, {})),
                      "callbackResponse")
    /\ heap = <<>> /\ schemas = <<>> /\ paths = <<>>

\* C12, as stated: tag templating starts right after response naming, and
\* path naming, operation naming, response naming, tag templating,
\* simplification and ordering follow one another in this order.
StatedOrder ==
    <<"GeneratePathNames", "GenerateOperationNames", "GenerateResponseNames", "AddTags",
      "SimplifyInlineSchemas", "OrderResources">>

CalledInOrder ==
    {<<"init", "Parse">>, <<"Parse", "AddTags">>, <<"AddTags", "ExtractSchemas">>,
     <<"ExtractSchemas", "ExtractAllOfs">>, <<"ExtractAllOfs", "GeneratePathNames">>,
     <<"GeneratePathNames", "GenerateOperationNames">>,
     <<"GenerateOperationNames", "GenerateResponseNames">>,
     <<"GenerateResponseNames", "SimplifyInlineSchemas">>,
     <<"SimplifyInlineSchemas", "OrderResources">>,
     <<"OrderResources", "AddPathComments">>}

Capitalized(x) == IF x = <<>> THEN <<>> ELSE <<ToUpperChar(x[1])>> \o Tail(x)

StatedPart(x) ==
    IF Len(x) >= 2 /\ x[1] = "{" /\ x[Len(x)] = "}"
    THEN With \o Capitalized(SubSeq(x, 2, Len(x) - 1))
    ELSE Capitalized(x)

StatedName(pathString) == Flatten(MapSeq(Split(pathString, "/"), StatedPart))

\* A name up to the casing rule: its letters in lower case and its digits.
Normal(name) == SelectSeq(ToLower(name), LAMBDA c : IsLower(c) \/ IsDigit(c))

\* C13: GeneratePathNames leaves a named path as it is and gives an unnamed
\* path the name of the stated rule, up to the casing rule; run again on its
\* result it changes nothing.
PathNaming ==
    last = "GeneratePathNames" =>
        /\ \A i \in 1..Len(paths) :
              IF pre.paths[i].Name # <<>> THEN paths[i].Name = pre.paths[i].Name
              ELSE Normal(paths[i].Name) = Normal(StatedName(paths[i].PathString))
        /\ GeneratePathNamesOf(paths) = paths

\* /pets/{id}/profile, unnamed, has got the name PetsWithIDProfile.
PathNamingWitness ==
    /\ last = "GeneratePathNames"
    /\ pre.paths[1].Name = <<>>
    /\ paths[1].PathString = PetsProfile
    /\ paths[1].Name = <<"P", "e", "t", "s", "W", "i", "t", "h", "I", "D",
                         "P", "r", "o", "f", "i", "l", "e">>

\* a comes before b in the lexicographic order of the character codes, or
\* is equal to it.
RECURSIVE NotAfter(_, _)
NotAfter(a, b) ==
    IF a = <<>> THEN TRUE
    ELSE IF b = <<>> THEN FALSE
    ELSE IF Head(a) = Head(b) THEN NotAfter(Tail(a), Tail(b))
    ELSE Code(Head(a)) < Code(Head(b))

InNameOrder(s) == \A i, j \in 1..Len(s) : i < j => NotAfter(s[i].Name, s[j].Name)

\* C14: after OrderResources the paths, the operations of each path and the
\* parameters and responses of each operation are in non-decreasing
\* lexicographic order of their names.
Ordered ==
    last = "OrderResources" =>
        /\ InNameOrder(paths)
        /\ \A i \in 1..Len(paths) :
              /\ InNameOrder(paths[i].Operations)
              /\ \A j \in 1..Len(paths[i].Operations) :
                    /\ InNameOrder(paths[i].Operations[j].Parameters)
                    /\ InNameOrder(paths[i].Operations[j].Responses)

\* Paths, operations, parameters and responses that were all out of order
\* before the pass.
OrderedWitness ==
    /\ last = "OrderResources"
    /\ Len(paths) = 2
    /\ ~InNameOrder(pre.paths)
    /\ ~InNameOrder(pre.paths[1].Operations)
    /\ ~InNameOrder(pre.paths[1].Operations[1].Parameters)
    /\ ~InNameOrder(pre.paths[1].Operations[1].Responses)
    /\ paths[1].Name = nZoo /\ paths[2].Name = nAnt

\* The parameters of a template, and the template in the colon style as the
\* claim states it: every {name} replaced by :name, nothing else changed.
ParameterName(seg) == SubSeq(seg, 2, Len(seg) - 1)

IsParameter(seg) == Len(seg) >= 3 /\ seg[1] = "{" /\ seg[Len(seg)] = "}"

StatedColon(path) ==
    Join(MapSeq(Split(path, "/"),
                LAMBDA seg : IF IsParameter(seg) THEN <<":">> \o ParameterName(seg) ELSE seg),
         "/")

\* C15: converting a template to the colon style replaces every {name} by
\* :name and nothing else, and converting the result back gives the template.
RoundTrip ==
    /\ last \in {"ParamStyleToColon", "ParamStyleToBraces"} => colon = StatedColon(template)
    /\ last = "ParamStyleToBraces" => braces = template

\* C15, the first half: the colon style is as stated.
ColonStyle ==
    last \in {"ParamStyleToColon", "ParamStyleToBraces"} => colon = StatedColon(template)

\* C15 for templates whose parameter names are letters and digits only: the
\* round trip gives the template back.
RoundTripOfAlnumNames ==
    (/\ last = "ParamStyleToBraces"
     /\ \A seg \in Range(Split(template, "/")) :
           IsParameter(seg) => \A c \in Range(ParameterName(seg)) : IsAlnum(c))
        => braces = template

\* A node without children and without additional properties.
Childless(n) == n.Children = <<>> /\ n.AdditionalProps = 0

\* C16: a node that ParseSchema has returned as the copy of the ancestor of
\* its name has no children and no additional properties.
CycleCopyTerminal ==
    last = "Parse" => \A id \in cycles : Childless(heap[id])

\* C16 for the copies that are a property, the items or a member of their
\* parent: they have no children and no additional properties.
CycleCopyTerminalInChildren ==
    last = "Parse" =>
        \A id \in cycles :
            (\E n \in 1..Len(heap) :
                heap[n].Variant # VariantMap /\ id \in Range(heap[n].Children))
                => Childless(heap[id])

\* Every member of the allOf node id is named, is not to be created, and
\* has one registry entry of its name.
MembersExtracted(h, ss, id) ==
    \A m \in Range(h[id].Children) :
        /\ h[m].Name # <<>>
        /\ ~h[m].Create
        /\ Entries(h, ss, h[m].Name) = 1

\* C17: after ExtractAllOfs every member of every creatable allOf of the Spec,
\* the registry entries added by the pass included, is named, is not to be
\* created, and has exactly one registry entry of its name.
MembersExtractedOnce ==
    (last = "ExtractAllOfs" /\ err = "") =>
        \A id \in Reachable(heap, schemas, paths) :
            (heap[id].Variant = VariantAllOf /\ heap[id].Create)
                => MembersExtracted(heap, schemas, id)

\* C17 for the nodes that were there before the pass: the members of their
\* creatable allOfs are extracted once.
MembersExtractedOfOld ==
    (last = "ExtractAllOfs" /\ err = "" /\ reruns = 0) =>
        \A id \in Reachable(heap, schemas, paths) :
            (id <= Len(pre.heap) /\ heap[id].Variant = VariantAllOf /\ heap[id].Create)
                => MembersExtracted(heap, schemas, id)

\* The unnamed members of the creatable allOfs that were in the Spec before
\* the pass: the allOf and the place of the member.
UnnamedMembers ==
    {x \in Reachable(pre.heap, pre.schemas, pre.paths) \X (1..2) :
        /\ pre.heap[x[1]].Variant = VariantAllOf
        /\ pre.heap[x[1]].Create
        /\ x[2] <= Len(pre.heap[x[1]].Children)
        /\ pre.heap[pre.heap[x[1]].Children[x[2]]].Name = <<>>}

MemberName(x) == heap[heap[x[1]].Children[x[2]]].Name

\* The name is <parent>Fragment<index> under a named parent and
\* UnnamedFragment<counter> under an unnamed one.
StatedFragmentName(x) ==
    IF pre.heap[x[1]].Name # <<>>
    THEN MemberName(x) = pre.heap[x[1]].Name \o Fragment \o Itoa(x[2] - 1)
    ELSE \E k \in 0..(2 * Cardinality(UnnamedMembers)) : MemberName(x) = UnnamedFragment \o Itoa(k)

\* The pass has added the registry entry of the member.
AddedEntry(x) ==
    \E k \in (Len(pre.schemas) + 1)..Len(schemas) : heap[schemas[k]].Name = MemberName(x)

\* C18: the name synthesized for an unnamed member of a creatable allOf has
\* the stated form, is the name of no registry entry that was there before
\* and of no other such member, and the pass adds a registry entry for it.
FragmentNamesFresh ==
    (last = "ExtractAllOfs" /\ err = "" /\ reruns = 0) =>
        \A x \in UnnamedMembers :
            /\ StatedFragmentName(x)
            /\ Entries(pre.heap, pre.schemas, MemberName(x)) = 0
            /\ \A y \in UnnamedMembers \ {x} : MemberName(y) # MemberName(x)
            /\ AddedEntry(x)

\* C18 without the claim that the name is new: the name has the stated
\* form and differs from that of every other member, and the pass adds the
\* entry unless the registry had one of that name.
FragmentNamesStated ==
    (last = "ExtractAllOfs" /\ err = "" /\ reruns = 0) =>
        \A x \in UnnamedMembers :
            /\ StatedFragmentName(x)
            /\ \A y \in UnnamedMembers \ {x} : MemberName(y) # MemberName(x)
            /\ Entries(pre.heap, pre.schemas, MemberName(x)) = 0 => AddedEntry(x)

\* C19: the walker's "should stop" does not make AddTags, and with it
\* Transform, return an error.
StopIsNoFailure == last = "AddTags" => err # "should stop"

\* C19, the part on the nodes: when the walker of AddTags has returned
\* "should stop" no node is modified.
StopModifiesNothing ==
    (last = "AddTags" /\ err = "should stop") => heap = pre.heap /\ schemas = pre.schemas

\* p is a proper prefix of q: q is the path of a descendant of the node of p
\* below that call.
Above(p, q) == Len(p) < Len(q) /\ SubSeq(q, 1, Len(p)) = p

\* The path is a chain of nodes from the root, each held by the one before.
IsChain(h, r, p) ==
    /\ p # <<>>
    /\ p[1] = r
    /\ \A k \in 1..(Len(p) - 1) : p[k + 1] \in Range(Slots(h[p[k]]))

\* The calls of the walker in one walk: every path is the ancestor chain of
\* its node, every node held by a visited node is visited below it, and a
\* node comes after its descendants bottom-up and before them top-down.
WalkInOrder(h, r, w, bottomUp) ==
    /\ \A i \in 1..Len(w) : IsChain(h, r, w[i])
    /\ \A i \in 1..Len(w) : \A c \in Range(Slots(h[Last(w[i])])) :
          \E j \in 1..Len(w) : w[j] = Append(w[i], c)
    /\ \A i, j \in 1..Len(w) : Above(w[i], w[j]) => IF bottomUp THEN j < i ELSE i < j

\* C20: in every Spec after Parse and after every pass, a walk from any root
\* in either order calls the walker with the ancestor chains, after the
\* descendants bottom-up and before them top-down; and the walk that the
\* walker of AddTags has stopped has gone no further.
WalkOrder ==
    last # "init" =>
        /\ \A r \in Range(SpecRoots(schemas, paths)) : \A bottomUp \in BOOLEAN :
              \A rev \in {{}, MapNodes(heap)} :
                  WalkInOrder(heap, r, Walk(heap, r, bottomUp, rev), bottomUp)
        /\ (last = "AddTags" /\ err # "") => heap = pre.heap

\* What holds on every tree: the paths are the ancestor chains, no held node
\* is skipped, and every call below the root has a call on its parent before
\* it top-down and after it bottom-up.  (The value of a map is held twice
\* and walked twice: below a map of maps the second call on the inner map
\* comes after the first calls on its descendants.)
WalkOrderOfParents ==
    last # "init" =>
        \A r \in Range(SpecRoots(schemas, paths)) : \A bottomUp \in BOOLEAN :
            LET w == Walk(heap, r, bottomUp, {})
            IN /\ \A i \in 1..Len(w) : IsChain(heap, r, w[i])
               /\ \A i \in 1..Len(w) : \A c \in Range(Slots(heap[Last(w[i])])) :
                     \E j \in 1..Len(w) : w[j] = Append(w[i], c)
               /\ \A j \in 1..Len(w) :
                     Len(w[j]) > 1 =>
                        \E i \in 1..Len(w) :
                           /\ w[i] = SubSeq(w[j], 1, Len(w[j]) - 1)
                           /\ IF bottomUp THEN j < i ELSE i < j

\* A tree of three levels has been walked.
WalkOrderWitness ==
    /\ last = "ExtractSchemas"
    /\ \E r \in Range(SpecRoots(schemas, paths)) :
          \E i \in 1..Len(Walk(heap, r, TRUE, {})) :
              /\ Len(Walk(heap, r, TRUE, {})[i]) >= 3
              /\ i < Len(Walk(heap, r, TRUE, {}))

\* The components ParseSchemas resolves, in order: after Parse the registry
\* has one entry for each.
Resolved(comps) ==
    SelectSeq(comps, LAMBDA c : c.ref.kind \notin {"nil", "empty", "unresolved"})

\* The plain objects among them: no extension, no allOf, anyOf or oneOf.
PlainObject(sref) ==
    /\ sref.kind = "inline"
    /\ sref.Value.Ext.state = "none"
    /\ sref.Value.Type = "object"
    /\ ~sref.Value.AllOf.has /\ ~sref.Value.AnyOf.has /\ ~sref.Value.OneOf.has

\* The properties of a plain object that are plain themselves (an inline
\* schema without extension: it is resolved with the nullable flag of the
\* document) and have a Go name of their own.
PlainProperties(value) ==
    {i \in 1..Len(value.Properties) :
        /\ value.Properties[i].schema.kind = "inline"
        /\ value.Properties[i].schema.Value.Ext.state = "none"
        /\ \A j \in 1..Len(value.Properties) :
              j # i => ToGoName(ToCamel(value.Properties[j].name))
                          # ToGoName(ToCamel(value.Properties[i].name))}

\* The node of a property of the struct n.
ChildOf(h, n, name) ==
    h[n.Children[CHOOSE k \in 1..Len(n.Keys) : n.Keys[k] = ToGoName(ToCamel(name))]]

\* Whether every plain property of every plain object of the registry has
\* the nullable flag that Flag gives for it.
PropertiesFlagged(Flag(_, _, _)) ==
    (last = "Parse" /\ err = "") =>
        LET comps == Resolved(doc.components)
        IN \A k \in 1..Len(comps) :
              PlainObject(comps[k].ref) =>
                 LET value == comps[k].ref.Value
                 IN \A i \in PlainProperties(value) :
                       LET p == value.Properties[i]
                           child == ChildOf(heap, heap[schemas[k]], p.name)
                       IN child.Nullable = Flag(child, p, value.Required)

\* C21: after Parse, a property that is not in the required list of its
\* object is nullable unless its node is a Map, Array, AnyOf, OneOf or Any,
\* which keeps the flag it was resolved with; a required property keeps the
\* flag it was resolved with.
OptionalNullable ==
    PropertiesFlagged(LAMBDA child, p, required :
        IF p.name \in required \/ CanBeNil(child) THEN p.schema.Value.Nullable ELSE TRUE)

\* What holds instead: every property that is not required is nullable,
\* whatever its variant.
OptionalNullableOfAnyVariant ==
    PropertiesFlagged(LAMBDA child, p, required :
        IF p.name \in required THEN p.schema.Value.Nullable ELSE TRUE)

\* An optional array property that the document does not make nullable.
OptionalArrayResolved ==
    /\ last = "Parse" /\ err = ""
    /\ doc = PropertyDoc(Arr(Inline(StrBody)), FALSE, FALSE)

\* The children a node has match its variant: a map has a list of two, the
\* key (a string) then the value; a struct has children under distinct
\* names; an array has one child.
ShapeOf(h, n) ==
    /\ n.Variant = VariantMap =>
          /\ n.ChildKind = "array" /\ Len(n.Children) = 2
          /\ h[n.Children[1]].Variant = VariantPrimitive
          /\ h[n.Children[1]].PrimitiveType = "string"
    /\ n.Variant = VariantStruct =>
          /\ n.ChildKind = "map" /\ Len(n.Keys) = Len(n.Children)
          /\ \A i, j \in 1..Len(n.Keys) : n.Keys[i] = n.Keys[j] => i = j
    /\ n.Variant = VariantArray =>
          n.ChildKind = "schema" /\ Len(n.Children) = 1 /\ n.Children[1] # 0

ShapeMatchesVariant ==
    LET w == SpecWalks(heap, schemas, paths)
    IN \A i \in 1..Len(w) : ShapeOf(heap, heap[Last(w[i])])

\* An object that declares no property but additional properties.
OpenObject(sref) ==
    /\ PlainObject(sref)
    /\ sref.Value.Properties = <<>>
    /\ sref.Value.AdditionalPropertiesAllowed \/ sref.Value.AdditionalProperties.kind # "nil"

\* The nodes of the Spec that stand for the component: its registry entry
\* and the nodes resolved from a reference to it, except those of `but`.
NodesOf(k, key, but) ==
    LET w == SpecWalks(heap, schemas, paths)
    IN {schemas[k]} \cup
       {Last(w[i]) : i \in {j \in 1..Len(w) : /\ heap[Last(w[j])].OriginalName = key
                                             /\ heap[Last(w[j])].Variant # ""
                                             /\ Last(w[j]) \notin but}}

OpenObjectsAreMaps(but) ==
    (last = "Parse" /\ err = "") =>
        LET comps == Resolved(doc.components)
        IN \A k \in 1..Len(comps) :
              OpenObject(comps[k].ref) =>
                 \A id \in NodesOf(k, comps[k].key, but) : heap[id].Variant = VariantMap

VariantShapeOfCopies == OpenObjectsAreMaps({})

NoSegments(pathString) == \A i \in 1..Len(pathString) : pathString[i] = "/"

\* The paths that had no name and no segments when GeneratePathNames began.
RootPaths == {i \in 1..Len(paths) : pre.paths[i].Name = <<>> /\ NoSegments(paths[i].PathString)}

\* C23: GeneratePathNames names a path that has no name and no segments
\* RootPath, so GenerateOperationNames, which follows it, does not fail on it.
RootPathFallback ==
    /\ last = "GeneratePathNames" => \A i \in RootPaths : paths[i].Name = RootPath
    /\ (last = "GenerateOperationNames" /\ \E i \in 1..Len(paths) : NoSegments(paths[i].PathString))
          => err = ""

\* What holds instead: such a path is left without a name, and
\* GenerateOperationNames fails on it.
RootPathUnnamed ==
    /\ last = "GeneratePathNames" => \A i \in RootPaths : paths[i].Name = <<>>
    /\ (last = "GenerateOperationNames" /\ \E i \in 1..Len(pre.paths) :
            pre.paths[i].Name = <<>> /\ NoSegments(pre.paths[i].PathString))
          => err = "path has no name"

\* Whether GenerateOperationNames has failed exactly when some path had no
\* name and has otherwise left the named operations as they were and given
\* every other operation the name Named gives for its method and its path.
OperationsNamed(Named(_, _)) ==
    last = "GenerateOperationNames" =>
        /\ err # "" <=> \E i \in 1..Len(pre.paths) : pre.paths[i].Name = <<>>
        /\ err = "" =>
              \A i \in 1..Len(paths) : \A j \in 1..Len(paths[i].Operations) :
                 LET before == pre.paths[i].Operations[j]
                 IN paths[i].Operations[j] =
                       [before EXCEPT !.Name = IF @ # <<>> THEN @
                                               ELSE Named(before.Method, paths[i].Name)]

CallbackLists(ps) ==
    UNION {UNION {{cb.paths : cb \in Range(o.Callbacks)} : o \in Range(p.Operations)} :
           p \in Range(ps)}

\* Whether the parameters and the responses of the operations of the
\* callback paths of a list are in the order of their names.
CallbackOperationsOrdered(cbPaths) ==
    \A cbPath \in Range(cbPaths) : \A cbOp \in Range(cbPath.Operations) :
        InNameOrder(cbOp.Parameters) /\ InNameOrder(cbOp.Responses)

\* C25: after OrderResources every list of callback paths is sorted by name
\* and the parameters and the responses of every operation of every
\* callback path are sorted by name.
CallbacksOrdered ==
    last = "OrderResources" =>
        \A cbPaths \in CallbackLists(paths) :
            InNameOrder(cbPaths) /\ CallbackOperationsOrdered(cbPaths)

\* What holds instead: the lists of callback paths are sorted, and so are the
\* operations of the callback paths of a list that was in order before.
CallbacksOrderedWhenInOrder ==
    last = "OrderResources" =>
        /\ \A cbPaths \in CallbackLists(paths) : InNameOrder(cbPaths)
        /\ (\A cbPaths \in CallbackLists(pre.paths) : InNameOrder(cbPaths))
              => \A cbPaths \in CallbackLists(paths) : CallbackOperationsOrdered(cbPaths)

\* An unnamed node that SimplifyInlineSchemas is to change.
Unsimplified(n) ==
    /\ n.Name = <<>>
    /\ \/ n.Variant \in {VariantAnyOf, VariantOneOf}
       \/ n.Variant = VariantStruct /\ n.AdditionalProps # 0

\* Whether below the given roots no unnamed node is left to simplify and
\* every named node has the variant it had.
SimplifiedBelow(roots) ==
    LET w == Flatten([i \in 1..Len(roots) |-> Walk(heap, roots[i], FALSE, {})])
    IN \A i \in 1..Len(w) :
          /\ ~Unsimplified(heap[Last(w[i])])
          /\ heap[Last(w[i])].Name # <<>> =>
                heap[Last(w[i])].Variant = pre.heap[Last(w[i])].Variant

\* C26: after SimplifyInlineSchemas no unnamed node of the Spec (registry,
\* parameters and responses of the operations and of the operations of the
\* callbacks) is an AnyOf or a OneOf, no unnamed Struct has additional
\* properties, and every named node has kept its variant.
InlineSimplified ==
    last = "SimplifyInlineSchemas" => SimplifiedBelow(SpecRoots(schemas, paths))

\* What holds instead: the same below the registry and the parameters and
\* responses of the operations of the paths, the callbacks left out.
InlineSimplifiedOutsideCallbacks ==
    last = "SimplifyInlineSchemas" =>
        SimplifiedBelow(SelectSeq(schemas \o RootsWithoutCallbacks(paths), LAMBDA r : r # 0))

\* The nodes ExtractSchemas has demoted: to be created before, not after.
Demoted == {id \in 1..Len(pre.heap) : pre.heap[id].Create /\ ~heap[id].Create}

RegistryKept ==
    /\ last' # "Parse" =>
          /\ Len(schemas) <= Len(schemas')
          /\ SubSeq(schemas', 1, Len(schemas)) = schemas
    /\ last' = "OrderResources" => (schemas' = schemas /\ heap' = heap)

\* C28: every pass of Transform leaves the entries the registry had in place
\* and in their order, and at most appends entries; OrderResources leaves
\* the registry and its schemas as they are.
RegistryAppendOnly == [][RegistryKept]_vars

\* A pass has appended entries to a registry that had some.
RegistryAppendOnlyWitness ==
    /\ last \in {"ExtractSchemas", "ExtractAllOfs"} /\ reruns = 0
    /\ pre.schemas # <<>>
    /\ Len(schemas) > Len(pre.schemas)

\* The Spec with its paths, the operations of each path and the parameters
\* and the responses of each operation in the opposite order.
ReverseLists(ps) ==
    Reverse([i \in 1..Len(ps) |->
        [ps[i] EXCEPT !.Operations = Reverse([j \in 1..Len(@) |->
            [@[j] EXCEPT !.Parameters = Reverse(@), !.Responses = Reverse(@)]])]])

\* The paths, operations, parameters and responses of the Spec without the
\* callbacks of the operations.
WithoutCallbacks(ps) ==
    [i \in 1..Len(ps) |->
        [ps[i] EXCEPT !.Operations = [j \in 1..Len(@) |-> [@[j] EXCEPT !.Callbacks = <<>>]]]]

\* No two elements of the list have the same name.
DistinctNames(s) == \A i, j \in 1..Len(s) : s[i].Name = s[j].Name => i = j

AllDistinctNames(ps) ==
    /\ DistinctNames(ps)
    /\ \A p \in Range(ps) :
          /\ DistinctNames(p.Operations)
          /\ \A o \in Range(p.Operations) :
                DistinctNames(o.Parameters) /\ DistinctNames(o.Responses)

\* C29: OrderResources gives the Spec and the Spec with its lists in another
\* order the same sequences of paths, operations, parameters and responses,
\* also when elements of a list have equal names.
OrderIndependent ==
    last = "OrderResources" =>
        \A flip \in BOOLEAN :
            WithoutCallbacks(OrderResourcesOf(ReverseLists(pre.paths), flip)) = WithoutCallbacks(paths)

\* What holds instead: the same when no two elements of a list have the
\* same name.
OrderIndependentOfDistinct ==
    (last = "OrderResources" /\ AllDistinctNames(pre.paths)) =>
        \A flip \in BOOLEAN :
            WithoutCallbacks(OrderResourcesOf(ReverseLists(pre.paths), flip)) = WithoutCallbacks(paths)

\* The raw schemas that resolution meets below a raw schema and that have an
\* override with create: false and a name (the type of the override, else
\* the reference); `names` are the names of the nodes above.
RECURSIVE ForbiddenIn(_, _)
ForbiddenBelow(v, names) ==
    IF v.AllOf.has THEN UNION {ForbiddenIn(m, names) : m \in Range(v.AllOf.items)}
    ELSE IF v.AnyOf.has THEN UNION {ForbiddenIn(m, names) : m \in Range(v.AnyOf.items)}
    ELSE IF v.OneOf.has THEN UNION {ForbiddenIn(m, names) : m \in Range(v.OneOf.items)}
    ELSE IF v.Type = "object"
    THEN UNION {ForbiddenIn(q.schema, names) : q \in Range(v.Properties)}
            \cup (IF v.AdditionalProperties.kind = "nil" THEN {}
                  ELSE ForbiddenIn(v.AdditionalProperties, names))
    ELSE IF v.Type = "array" THEN ForbiddenIn(v.Items, names)
    ELSE {}

ForbiddenValue(sref, v, name, names) ==
    IF v.Ext.state = "bad" THEN {}
    ELSE IF v.Ext.Create = "false" /\ name # <<>> THEN {sref}
    ELSE IF name # <<>> /\ name \in Range(names) THEN {}
    ELSE ForbiddenBelow(v, Append(names, name))

ForbiddenIn(sref, names) ==
    IF sref.kind \in {"nil", "empty", "unresolved"} THEN {}
    ELSE ForbiddenValue(sref, ValueOf(sref), SchemaName(sref, ValueOf(sref).Ext), names)

DocForbidden(d) == UNION {ForbiddenIn(r, <<>>) : r \in RawRoots(d)}

\* The nodes of the Spec resolved from such a raw schema: they have its name
\* and the name of its reference.
ResolvedFrom(sref) ==
    LET w == SpecWalks(heap, schemas, paths)
    IN {Last(w[i]) : i \in {j \in 1..Len(w) :
            /\ heap[Last(w[j])].Name = SchemaName(sref, ValueOf(sref).Ext)
            /\ heap[Last(w[j])].OriginalName = RefName(sref)}}

\* A terminal named node: Any if the override says it can be nil, Primitive
\* otherwise, and no children.
Terminal(n, sref) ==
    /\ n.Variant = IF ValueOf(sref).Ext.CanBeNil THEN VariantAny ELSE VariantPrimitive
    /\ n.PrimitiveType = ""
    /\ n.Children = <<>> /\ n.ChildKind = "nil" /\ n.AdditionalProps = 0

\* Whether the nodes resolved with such an override are terminal after Parse
\* and, after each of the passes `upTo`, are not to be created and have no
\* registry entry under their name that is to be created.
ForbiddenRespected(upTo) ==
    (last \in {"Parse"} \cup upTo /\ err = "") =>
        \A sref \in DocForbidden(doc) :
           /\ \A id \in ResolvedFrom(sref) :
                 /\ last = "Parse" => Terminal(heap[id], sref)
                 /\ ~heap[id].Create
           /\ \A k \in 1..Len(schemas) :
                 heap[schemas[k]].Name = SchemaName(sref, ValueOf(sref).Ext)
                    => ~heap[schemas[k]].Create

\* C30: a node resolved with an override that has create: false and a name
\* is a terminal named node (Any if it can be nil, Primitive otherwise, no
\* children), and no pass sets its create flag or adds a registry entry to be
\* created under its name.
OverrideForbidsCreation == ForbiddenRespected(Range(Passes))

\* What holds instead: the same up to ExtractSchemas, before ExtractAllOfs.
OverrideForbidsCreationBeforeAllOfs == ForbiddenRespected({"AddTags", "ExtractSchemas"})

====
